---------------------------- MODULE Spec2Model ----------------------------
(***************************************************************************)
(* Notification propagation core of use-less-react (PubSub / GenericPubSub) *)
(* as documented in this repository: notify, subscribe, @Notifies,          *)
(* @DependsOn and batchNotifications.                                       *)
(*                                                                          *)
(* Scheduling is single-threaded and cooperative: one logical operation     *)
(* (a "task") executes synchronous code at a time (variable active), and    *)
(* other operations run only while it is suspended at an await.             *)
(***************************************************************************)
EXTENDS Integers, Sequences, FiniteSets, TLC

\* ------------------------------------------------------------- universe
Facets    == {"a", "b", "c"}
Observers == {"o1", "o2"}
Entities  == {"e1"}
Tasks     == {"t1", "t2"}
Errors    == {"err"}
NoTask    == "none"
NoError   == "noerr"
NoEntity  == "noentity"

\* deepest nesting of batchNotifications inside one operation
MaxDepth == 2
\* most state mutations one wrapped method body performs
MaxMutations == 2

VARIABLES
  deps,                  \* @DependsOn table of the type: derived facet -> facets it reads
  listeners,             \* per entity: the subscribed observers
  batchCounter,          \* per entity: reference counter of open batches
  pendingNotifications,  \* per entity: keys queued while a batch is open
  active,                \* the task executing synchronous code, or NoTask
  tasks,                 \* per task: the operation in progress
  emitted,               \* observer invocations made by the last step
  lastOp,                \* what the last step was (history)
  reportedIn,            \* per entity and task: facets notified since the
                         \* entity's counter was last zero (history)
  instance,              \* the live object handed to dehydration (server side)
  dehydratedData,        \* the plain value produced by dehydrate, with its type key
  hydrated,              \* what hydrate made of dehydratedData (client side)
  registry,              \* serializableClassesRegistry: the registered class names
  hydrating,             \* hydrateInstances at work: the instances built so far
  commandBus,            \* a HybridCommandBus: its handlers and its last call
  eventBus,              \* a HybridEventBus: its handlers and its last publish
  caretaker,             \* a BaseCaretaker: history, historyPointer, last restore
  deliveries             \* notify at work, observer by observer, and its record

vars == <<deps, listeners, batchCounter, pendingNotifications, active, tasks,
          emitted, lastOp, reportedIn, instance, dehydratedData, hydrated,
          registry, hydrating, commandBus, eventBus, caretaker, deliveries>>

\* The variables of PubSub.
pubsub == <<deps, listeners, batchCounter, pendingNotifications, active, tasks,
            emitted, lastOp, reportedIn, deliveries>>

\* The variables of the hydration flow.
serial == <<instance, dehydratedData, hydrated, registry, hydrating>>

\* The variables of the prefabs.
prefabs == <<commandBus, eventBus, caretaker>>

\* No value.
Nothing == [kind |-> "none"]

\* Nothing is being serialized.
NothingSerialized ==
  /\ instance = Nothing /\ dehydratedData = Nothing /\ hydrated = Nothing
  /\ registry = {} /\ hydrating = Nothing

\* No prefab is constructed.
NoPrefabs ==
  commandBus = Nothing /\ eventBus = Nothing /\ caretaker = Nothing

\* ------------------------------------------------------ @DependsOn graph
\* d[f] is the list given to @DependsOn on getter f ({} when f is a base facet).
DepGraphs == [Facets -> SUBSET Facets]

\* The @DependsOn declarations of the types the entities are built from: a
\* chain of getters (b reads a, c reads b) and one getter reading two fields
\* (c reads a and b, as fullName reads firstName and lastName).
NoGetter == [f \in Facets |-> {}]
Chain    == [NoGetter EXCEPT !["b"] = {"a"}, !["c"] = {"b"}]
FanIn    == [NoGetter EXCEPT !["c"] = {"a", "b"}]
TypeGraphs == {Chain, FanIn}

\* Facets from which f is reachable in at most n dependency steps.
RECURSIVE Reads(_, _, _)
Reads(d, f, n) ==
  IF n = 0 THEN {f}
  ELSE {f} \cup UNION {Reads(d, g, n - 1) : g \in d[f]}

\* No getter depends, directly or transitively, on itself.
Acyclic(d) ==
  \A f \in Facets : \A g \in d[f] : f \notin Reads(d, g, Cardinality(Facets))

\* The getters declared with @DependsOn(..., k, ...).
Dependents(d, k) == {f \in Facets : k \in d[f]}

\* Only the getters reading a notified key directly are added.
ExpandDirectOnly(d, S) == S \cup UNION {Dependents(d, k) : k \in S}

\* The keys notified for S: whenever a key is notified, the getters that
\* depend on it are notified as well, and so are the getters depending on
\* those.  (On a circular declaration this never ends.)
RECURSIVE Expand(_, _)
Expand(d, S) == S \cup UNION {Expand(d, Dependents(d, k)) : k \in S}

\* ------------------------------------------------------------- delivery
\* Subscribers are invoked in subscription-independent, fixed order.
ObserverOrder == <<"o1", "o2">>

Call(e, o, S) == [entity |-> e, observer |-> o, facets |-> S]

\* subscribe((propNames) => ...): one invocation per subscribed observer,
\* each receiving the whole list of notified keys.
RECURSIVE CallsFrom(_, _, _, _)
CallsFrom(i, subs, e, S) ==
  IF i > Len(ObserverOrder) THEN <<>>
  ELSE (IF ObserverOrder[i] \in subs THEN <<Call(e, ObserverOrder[i], S)>> ELSE <<>>)
       \o CallsFrom(i + 1, subs, e, S)

Deliver(subs, e, S) == CallsFrom(1, subs, e, S)

\* One listener set is shared by every instance.
SubscribersShared(ls, e) == UNION {ls[x] : x \in DOMAIN ls}

\* The callbacks notify invokes on instance e: those in the listener set
\* created for e when it was constructed.
Subscribers(ls, e) == ls[e]

\* --------------------------------------------------- notify and batching
\* Every notify is queued.
ShouldQueueAlways(counter) == TRUE

\* notify(): the key is only added to pendingNotifications when the
\* reference counter is larger than zero.
ShouldQueue(counter) == counter > 0

\* The last notify wins.
QueueOverwrite(pending, S) == S

\* pendingNotifications is a set: adding keys is a union.
Queue(pending, S) == pending \cup S

\* The counter is a flag: an open batch is just "on".
EnterCounterFlag(counter) == 1

\* Every call of batchNotifications increments the reference counter.
EnterCounter(counter) == counter + 1

\* Flush on every close.
ShouldFlushAlways(counter, scopesLeft) == TRUE

\* Flush when the closing call is the outermost one of its own call stack.
ShouldFlushByStack(counter, scopesLeft) == scopesLeft = 0

\* The flush is executed only when the reference counter returns to zero;
\* scopesLeft, the batches the closing operation still has open itself, plays
\* no part.
ShouldFlush(counter, scopesLeft) == counter = 0

\* The flush notifies every key of the instance.
FlushKeysAll(d, pending) == Facets

\* The single notification of a flush: all unique modified keys, with the
\* getters depending on them.
FlushKeys(d, pending) == Expand(d, pending)

\* Only the keys given to notify are handed to the subscribers.
NotifyKeysRaw(d, S) == S

\* The keys of an immediate (unbatched) notification.
NotifyKeys(d, S) == Expand(d, S)

\* A flush with nothing pending sends no notification.
FlushDeliversIfAny(pending) == pending # {}

\* Whether the flush sends its notification: a flush is executed whenever
\* the reference counter returns to zero, whatever the set holds.
FlushDelivers(pending) == TRUE

\* The flushed keys stay in the set.
AfterFlushKept(pending) == pending

\* The flush clears the pending notifications set.
AfterFlush(pending) == {}

\* ---------------------------------------------------------------- tasks
\* pc: idle, run, susp (at an await), settled (an async method's promise
\* settled, the wrapper's continuation not yet run).  returned: the original
\* method of a wrapped call has handed its result (or promise) to the wrapper.
\* reports: how often the wrapper has notified in this invocation.
IdleTask ==
  [pc |-> "idle", kind |-> "none", target |-> NoEntity, scopes |-> 0,
   keys |-> {}, isAsync |-> FALSE, raised |-> NoError, mutations |-> 0,
   returned |-> FALSE, reports |-> 0]

\* History of the last step: the operation, the entity it ran on, the keys
\* it was about (notify: its argument; close: everything notified since the
\* counter was last zero; call and finish: the keys given to @Notifies), and
\* for the step that ends an operation: the result of the method or work,
\* what its caller got back, and how often the wrapper notified.
\* parts (close): the same keys, split by the task that notified them.
NoReports == [t \in Tasks |-> {}]

NoOp ==
  [op |-> "init", task |-> NoTask, entity |-> NoEntity, facets |-> {},
   parts |-> NoReports, result |-> NoError, outcome |-> "none", reports |-> 0,
   mutations |-> 0, isAsync |-> FALSE, observer |-> "none"]

Op(name, e, S) == [NoOp EXCEPT !.op = name, !.entity = e, !.facets = S]

CanStart(t) == active = NoTask /\ tasks[t].pc = "idle"

Running(t, k) ==
  active = t /\ tasks[t].pc = "run" /\ tasks[t].kind = k

\* Everything notified on e since its counter was last zero.
Window(e) == UNION {reportedIn[e][t] : t \in Tasks}

Init ==
  /\ deps \in TypeGraphs
  /\ listeners = [e \in Entities |-> {}]
  /\ batchCounter = [e \in Entities |-> 0]
  /\ pendingNotifications = [e \in Entities |-> {}]
  /\ active = NoTask
  /\ tasks = [t \in Tasks |-> IdleTask]
  /\ emitted = <<>>
  /\ lastOp = NoOp
  /\ reportedIn = [e \in Entities |-> NoReports]
  /\ NothingSerialized
  /\ NoPrefabs
  /\ deliveries = Nothing

\* subscribe(callback): the callback is added to the listener set of e.
RegisterEffect(e, o) ==
  /\ o \notin listeners[e]
  /\ listeners' = [listeners EXCEPT ![e] = @ \cup {o}]
  /\ emitted' = <<>>
  /\ UNCHANGED <<serial, prefabs, deps, batchCounter, pendingNotifications, active, tasks, reportedIn>>

Register(e, o) ==
  /\ RegisterEffect(e, o)
  /\ UNCHANGED deliveries

\* subscribe(callback)
Subscribe(e, o) ==
  /\ Register(e, o)
  /\ lastOp' = Op("step", e, {})

\* Every listener is removed.
RemoveAll(subs, o) == {}

\* The listener set without the callback given to unsubscribe.
Remove(subs, o) == subs \ {o}

\* unsubscribe(callback): removes a previously registered listener, named by
\* the callback itself.
UnregisterEffect(e, o) ==
  /\ o \in listeners[e]
  /\ listeners' = [listeners EXCEPT ![e] = Remove(@, o)]
  /\ emitted' = <<>>
  /\ UNCHANGED <<serial, prefabs, deps, batchCounter, pendingNotifications, active, tasks, reportedIn>>

Unregister(e, o) ==
  /\ UnregisterEffect(e, o)
  /\ UNCHANGED deliveries

\* unsubscribe(callback)
Unsubscribe(e, o) ==
  /\ Unregister(e, o)
  /\ lastOp' = Op("step", e, {})

\* The sum of the counters bc of the objects es.
RECURSIVE SumOver(_, _)
SumOver(bc, es) ==
  IF es = {} THEN 0
  ELSE LET x == CHOOSE y \in es : TRUE IN bc[x] + SumOver(bc, es \ {x})

\* One reference counter for the whole process: the batches open anywhere.
OpenBatchesGlobal(bc, e) == SumOver(bc, DOMAIN bc)

\* The reference counter notify on e looks at: the one of e itself.
OpenBatches(bc, e) == bc[e]

\* The body of notify(...S) on entity e, called by task t.
NotifyEffect(t, e, S) ==
  IF ShouldQueue(OpenBatches(batchCounter, e))
  THEN /\ pendingNotifications' = [pendingNotifications EXCEPT ![e] = Queue(@, S)]
       /\ reportedIn' = [reportedIn EXCEPT ![e][t] = @ \cup S]
       /\ emitted' = <<>>
  ELSE /\ emitted' = Deliver(Subscribers(listeners, e), e, NotifyKeys(deps, S))
       /\ UNCHANGED <<pendingNotifications, reportedIn>>

\* A plain call of entity.notify(...S) from top-level code.
CallNotifyEffect(t, e, S) ==
  /\ CanStart(t)
  /\ NotifyEffect(t, e, S)
  /\ lastOp' = Op("notify", e, S)
  /\ UNCHANGED <<serial, prefabs, deps, listeners, batchCounter, active, tasks>>

CallNotify(t, e, S) ==
  /\ CallNotifyEffect(t, e, S)
  /\ UNCHANGED deliveries

\* batchNotifications(work) is entered: the reference counter is incremented.
\* Either a new operation, or a nested call from inside work.
BatchOpenEffect(t, e) ==
  /\ \/ /\ CanStart(t)
        /\ tasks' = [tasks EXCEPT ![t] =
                       [IdleTask EXCEPT !.pc = "run", !.kind = "batch",
                                        !.target = e, !.scopes = 1]]
     \/ /\ Running(t, "batch")
        /\ tasks[t].target = e
        /\ tasks[t].raised = NoError
        /\ tasks[t].scopes < MaxDepth
        /\ tasks' = [tasks EXCEPT ![t].scopes = @ + 1]
  /\ active' = t
  /\ batchCounter' = [batchCounter EXCEPT ![e] = EnterCounter(@)]
  /\ emitted' = <<>>
  /\ lastOp' = Op("open", e, {})
  /\ UNCHANGED <<serial, prefabs, deps, listeners, pendingNotifications, reportedIn>>

BatchOpen(t, e) ==
  /\ BatchOpenEffect(t, e)
  /\ UNCHANGED deliveries

\* this.notify(...S), or a reactive setter, executed by work.
BatchNotifyEffect(t, S) ==
  /\ Running(t, "batch")
  /\ tasks[t].raised = NoError
  /\ NotifyEffect(t, tasks[t].target, S)
  /\ lastOp' = Op("notify", tasks[t].target, S)
  /\ UNCHANGED <<serial, prefabs, deps, listeners, batchCounter, active, tasks>>

BatchNotify(t, S) ==
  /\ BatchNotifyEffect(t, S)
  /\ UNCHANGED deliveries

\* An await inside work: control goes back to the event loop.
AwaitEffect(t) ==
  /\ Running(t, "batch")
  /\ tasks' = [tasks EXCEPT ![t].pc = "susp"]
  /\ active' = NoTask
  /\ emitted' = <<>>
  /\ lastOp' = Op("step", tasks[t].target, {})
  /\ UNCHANGED <<serial, prefabs, deps, listeners, batchCounter, pendingNotifications, reportedIn>>

Await(t) ==
  /\ AwaitEffect(t)
  /\ UNCHANGED deliveries

\* The awaited promise settles and the operation continues.
ResumeEffect(t) ==
  /\ active = NoTask
  /\ tasks[t].pc = "susp"
  /\ tasks' = [tasks EXCEPT ![t].pc = "run"]
  /\ active' = t
  /\ emitted' = <<>>
  /\ lastOp' = Op("step", tasks[t].target, {})
  /\ UNCHANGED <<serial, prefabs, deps, listeners, batchCounter, pendingNotifications, reportedIn>>

Resume(t) ==
  /\ ResumeEffect(t)
  /\ UNCHANGED deliveries

\* work throws, or the promise it returned rejects.
BatchThrow(t, err) ==
  /\ Running(t, "batch")
  /\ tasks[t].raised = NoError
  /\ tasks' = [tasks EXCEPT ![t].raised = err]
  /\ emitted' = <<>>
  /\ lastOp' = Op("step", tasks[t].target, {})
  /\ UNCHANGED <<serial, prefabs, deliveries, deps, listeners, batchCounter, pendingNotifications, active, reportedIn>>

\* The counter is decremented only after work returned normally.
SettleCounterOnSuccess(counter, r) == IF r = NoError THEN counter - 1 ELSE counter

\* The counter after a batch function settled with result r (NoError or the
\* error it failed with).
SettleCounter(counter, r) == counter - 1

\* The failure is swallowed.
PropagateSwallow(r) == "ok"

\* What the caller of batchNotifications or of a wrapped method gets back.
Propagate(r) == IF r = NoError THEN "ok" ELSE r

\* A batch function settles (it returned, or it failed and the failure is
\* leaving this scope): the counter is decremented and, back at zero, the
\* pending keys are flushed in a single notification and the set is cleared.
BatchCloseEffect(t) ==
  LET e == tasks[t].target
      c == SettleCounter(batchCounter[e], tasks[t].raised)
      last == tasks[t].scopes = 1
  IN  /\ Running(t, "batch")
      /\ tasks[t].scopes > 0
      /\ batchCounter' = [batchCounter EXCEPT ![e] = c]
      /\ IF ShouldFlush(c, tasks[t].scopes - 1)
         THEN /\ emitted' = IF FlushDelivers(pendingNotifications[e])
                            THEN Deliver(Subscribers(listeners, e), e,
                                         FlushKeys(deps, pendingNotifications[e]))
                            ELSE <<>>
              /\ pendingNotifications' = [pendingNotifications EXCEPT ![e] = AfterFlush(@)]
              /\ reportedIn' = [reportedIn EXCEPT ![e] = NoReports]
         ELSE /\ emitted' = <<>>
              /\ UNCHANGED <<pendingNotifications, reportedIn>>
      /\ tasks' = [tasks EXCEPT ![t] =
                     IF last THEN IdleTask ELSE [@ EXCEPT !.scopes = @ - 1]]
      /\ active' = IF last THEN NoTask ELSE t
      /\ lastOp' = [Op("close", e, Window(e)) EXCEPT
                      !.task = t,
                      !.parts = reportedIn[e],
                      !.result = tasks[t].raised,
                      !.outcome = IF last THEN Propagate(tasks[t].raised) ELSE "none"]
      /\ UNCHANGED <<serial, prefabs, deps, listeners>>

BatchClose(t) ==
  /\ BatchCloseEffect(t)
  /\ UNCHANGED deliveries

\* ------------------------------------------------------------ @Notifies
\* The decorated methods of the type and the keys given to @Notifies on each,
\* fixed when the class is defined.
Methods == {"setA", "setBC"}
NotifiesKeys(m) == IF m = "setA" THEN {"a"} ELSE {"b", "c"}

\* The keys are notified whatever the method's result.
WrapperNotifiesAlways(r) == TRUE

\* Whether the wrapper notifies its keys after the method finished with r.
WrapperNotifies(r) == r = NoError

\* The wrapper notifies as soon as the original method returned, promise or not.
NotifiesAtReturn(isAsync) == "returned"

\* The point at which the wrapper notifies: when a synchronous method
\* returned, and when the promise of an asynchronous method settled.
NotifiesAt(isAsync) == IF isAsync THEN "settled" ELSE "returned"

\* A method decorated with @Notifies(...keys) is invoked on entity e.
WrappedCallEffect(t, e, m, async) ==
  /\ CanStart(t)
  /\ tasks' = [tasks EXCEPT ![t] =
                 [IdleTask EXCEPT !.pc = "run", !.kind = "wrapped", !.target = e,
                                  !.keys = NotifiesKeys(m), !.isAsync = async]]
  /\ active' = t
  /\ emitted' = <<>>
  /\ lastOp' = Op("call", e, NotifiesKeys(m))
  /\ UNCHANGED <<serial, prefabs, deps, listeners, batchCounter, pendingNotifications, reportedIn>>

WrappedCall(t, e, m, async) ==
  /\ WrappedCallEffect(t, e, m, async)
  /\ UNCHANGED deliveries

\* The method body assigns a property; the body itself notifies nothing.
WrappedMutate(t) ==
  /\ Running(t, "wrapped")
  /\ tasks[t].mutations < MaxMutations
  /\ tasks' = [tasks EXCEPT ![t].mutations = @ + 1]
  /\ emitted' = <<>>
  /\ lastOp' = Op("step", tasks[t].target, {})
  /\ UNCHANGED <<serial, prefabs, deliveries, deps, listeners, batchCounter, pendingNotifications, active, reportedIn>>

\* The keys are notified only when the body assigned something.
ReportedKeysIfChanged(keys, mutations) == IF mutations > 0 THEN keys ELSE {}

\* What the wrapper passes to notify: the list given to @Notifies, whatever
\* the body did (setCount with a negative value still notifies count).
ReportedKeys(keys, mutations) == keys

\* The wrapper notifies its keys (now) or does nothing at this point.
WrapperEffect(t, now) ==
  IF now
  THEN NotifyEffect(t, tasks[t].target, ReportedKeys(tasks[t].keys, tasks[t].mutations))
  ELSE /\ emitted' = <<>>
       /\ UNCHANGED <<pendingNotifications, reportedIn>>

Count(now) == IF now THEN 1 ELSE 0

\* The original method has handed a promise to the wrapper for the first time.
PromiseReturned(t) ==
  ~tasks[t].returned /\ NotifiesAt(tasks[t].isAsync) = "returned"

\* The wrapped call ends with result r; the wrapper notifies if now.
EndCall(t, r, now) ==
  /\ WrapperEffect(t, now)
  /\ tasks' = [tasks EXCEPT ![t] = IdleTask]
  /\ active' = NoTask
  /\ lastOp' = [Op("finish", tasks[t].target, tasks[t].keys) EXCEPT
                  !.task = t,
                  !.result = r,
                  !.outcome = Propagate(r),
                  !.reports = tasks[t].reports + Count(now),
                  !.mutations = tasks[t].mutations,
                  !.isAsync = tasks[t].isAsync]
  /\ UNCHANGED <<serial, prefabs, deps, listeners, batchCounter>>

\* A synchronous wrapped method returns (r = NoError) or throws r: the
\* wrapper continues in the same call.
WrappedFinish(t, r) ==
  /\ Running(t, "wrapped")
  /\ ~tasks[t].isAsync
  /\ EndCall(t, r, NotifiesAt(FALSE) = "returned" /\ WrapperNotifies(r))
  /\ UNCHANGED deliveries

\* An await in the body of an asynchronous wrapped method; at the first one
\* the method returns its promise to the wrapper.
WrappedAwaitEffect(t) ==
  /\ Running(t, "wrapped")
  /\ tasks[t].isAsync
  /\ WrapperEffect(t, PromiseReturned(t))
  /\ tasks' = [tasks EXCEPT ![t].pc = "susp", ![t].returned = TRUE,
                            ![t].reports = @ + Count(PromiseReturned(t))]
  /\ active' = NoTask
  /\ lastOp' = Op("step", tasks[t].target, {})
  /\ UNCHANGED <<serial, prefabs, deps, listeners, batchCounter>>

WrappedAwait(t) ==
  /\ WrappedAwaitEffect(t)
  /\ UNCHANGED deliveries

\* The promise of an asynchronous wrapped method resolves (r = NoError) or
\* rejects with r; the wrapper's continuation is scheduled.
WrappedSettleEffect(t, r) ==
  /\ Running(t, "wrapped")
  /\ tasks[t].isAsync
  /\ WrapperEffect(t, PromiseReturned(t))
  /\ tasks' = [tasks EXCEPT ![t].pc = "settled", ![t].raised = r,
                            ![t].returned = TRUE,
                            ![t].reports = @ + Count(PromiseReturned(t))]
  /\ active' = NoTask
  /\ lastOp' = Op("step", tasks[t].target, {})
  /\ UNCHANGED <<serial, prefabs, deps, listeners, batchCounter>>

WrappedSettle(t, r) ==
  /\ WrappedSettleEffect(t, r)
  /\ UNCHANGED deliveries

\* The wrapper's continuation after the promise settled.
WrappedContinueEffect(t) ==
  /\ active = NoTask
  /\ tasks[t].pc = "settled"
  /\ EndCall(t, tasks[t].raised,
             NotifiesAt(TRUE) = "settled" /\ WrapperNotifies(tasks[t].raised))

WrappedContinue(t) ==
  /\ WrappedContinueEffect(t)
  /\ UNCHANGED deliveries

Results == {NoError} \cup Errors
KeySets == SUBSET Facets \ {{}}

Next ==
  \/ \E e \in Entities, o \in Observers : Subscribe(e, o)
  \/ \E e \in Entities, o \in Observers : Unsubscribe(e, o)
  \/ \E t \in Tasks, e \in Entities, S \in KeySets : CallNotify(t, e, S)
  \/ \E t \in Tasks, e \in Entities : BatchOpen(t, e)
  \/ \E t \in Tasks, S \in KeySets : BatchNotify(t, S)
  \/ \E t \in Tasks : Await(t)
  \/ \E t \in Tasks : Resume(t)
  \/ \E t \in Tasks, err \in Errors : BatchThrow(t, err)
  \/ \E t \in Tasks : BatchClose(t)
  \/ \E t \in Tasks, e \in Entities, m \in Methods, async \in BOOLEAN :
        WrappedCall(t, e, m, async)
  \/ \E t \in Tasks : WrappedMutate(t)
  \/ \E t \in Tasks : WrappedAwait(t)
  \/ \E t \in Tasks, r \in Results : WrappedFinish(t, r)
  \/ \E t \in Tasks, r \in Results : WrappedSettle(t, r)
  \/ \E t \in Tasks : WrappedContinue(t)

Spec == Init /\ [][Next]_vars

\* One entity with no method pending: notify, subscribe and batches of one
\* operation, over every acyclic @DependsOn declaration.
InitAnyGraph ==
  /\ deps \in {d \in DepGraphs : Acyclic(d)}
  /\ listeners = [e \in Entities |-> {}]
  /\ batchCounter = [e \in Entities |-> 0]
  /\ pendingNotifications = [e \in Entities |-> {}]
  /\ active = NoTask
  /\ tasks = [t \in Tasks |-> IdleTask]
  /\ emitted = <<>>
  /\ lastOp = NoOp
  /\ reportedIn = [e \in Entities |-> NoReports]
  /\ NothingSerialized
  /\ NoPrefabs
  /\ deliveries = Nothing

NextNotify ==
  \/ \E e \in Entities, o \in Observers : Subscribe(e, o)
  \/ \E e \in Entities, o \in Observers : Unsubscribe(e, o)
  \/ \E e \in Entities, S \in KeySets : CallNotify("t1", e, S)
  \/ \E e \in Entities : BatchOpen("t1", e)
  \/ \E S \in KeySets : BatchNotify("t1", S)
  \/ BatchClose("t1")

SpecExpand == InitAnyGraph /\ [][NextNotify]_vars

\* The Counter class: field count (facet "a"), getter isEven declared with
\* @DependsOn("count") (facet "b"); increment() is decorated with
\* @Notifies("count") (method "setA").  Facet "c" is an unrelated field.
CounterGraph == [NoGetter EXCEPT !["b"] = {"a"}]
increment == "setA"

InitCounter ==
  /\ deps = CounterGraph
  /\ listeners = [e \in Entities |-> {}]
  /\ batchCounter = [e \in Entities |-> 0]
  /\ pendingNotifications = [e \in Entities |-> {}]
  /\ active = NoTask
  /\ tasks = [t \in Tasks |-> IdleTask]
  /\ emitted = <<>>
  /\ lastOp = NoOp
  /\ reportedIn = [e \in Entities |-> NoReports]
  /\ NothingSerialized
  /\ NoPrefabs
  /\ deliveries = Nothing

\* increment() called by either operation, synchronous or returning a
\* promise, while the other operation may hold a batch open.
NextCounter ==
  \/ \E e \in Entities, o \in Observers : Subscribe(e, o)
  \/ \E e \in Entities, o \in Observers : Unsubscribe(e, o)
  \/ \E t \in Tasks, e \in Entities, async \in BOOLEAN :
        WrappedCall(t, e, increment, async)
  \/ \E t \in Tasks : WrappedMutate(t)
  \/ \E t \in Tasks : WrappedAwait(t)
  \/ \E t \in Tasks, r \in Results : WrappedFinish(t, r)
  \/ \E t \in Tasks, r \in Results : WrappedSettle(t, r)
  \/ \E t \in Tasks : WrappedContinue(t)
  \/ \E e \in Entities : BatchOpen("t2", e)
  \/ Await("t2")
  \/ Resume("t2")
  \/ BatchClose("t2")

SpecCounter == InitCounter /\ [][NextCounter]_vars

\* ---------------------------------------------------- @BatchNotifications
\* The batch is closed as soon as the method returned, promise or not.
DecoratorClosesAtReturn(isAsync) == "returned"

\* The point at which the decorator's batchNotifications call completes: when
\* a synchronous method returned, and when the promise of an async method
\* settled.
DecoratorClosesAt(isAsync) == IF isAsync THEN "settled" ELSE "returned"

\* A method decorated with @BatchNotifications() is invoked on e: the wrapper
\* runs the original method inside this.batchNotifications(), which increments
\* the reference counter.
DecoratedCall(t, e, async) ==
  /\ CanStart(t)
  /\ tasks' = [tasks EXCEPT ![t] =
                 [IdleTask EXCEPT !.pc = "run", !.kind = "decorated", !.target = e,
                                  !.scopes = 1, !.isAsync = async]]
  /\ active' = t
  /\ batchCounter' = [batchCounter EXCEPT ![e] = EnterCounter(@)]
  /\ emitted' = <<>>
  /\ lastOp' = Op("call", e, {})
  /\ UNCHANGED <<serial, prefabs, deliveries, deps, listeners, pendingNotifications, reportedIn>>

\* An assignment to a reactive property (or this.notify) in the method body.
DecoratedNotify(t, S) ==
  /\ Running(t, "decorated")
  /\ NotifyEffect(t, tasks[t].target, S)
  /\ lastOp' = Op("notify", tasks[t].target, S)
  /\ UNCHANGED <<serial, prefabs, deliveries, deps, listeners, batchCounter, active, tasks>>

\* The decorator's batchNotifications call completes on e (close), or the
\* step leaves the batch as it is.
DecoratorEffect(t, e, close, r) ==
  LET c == SettleCounter(batchCounter[e], r)
  IN  IF close
      THEN /\ batchCounter' = [batchCounter EXCEPT ![e] = c]
           /\ IF ShouldFlush(c, 0)
              THEN /\ emitted' = IF FlushDelivers(pendingNotifications[e])
                                 THEN Deliver(Subscribers(listeners, e), e,
                                              FlushKeys(deps, pendingNotifications[e]))
                                 ELSE <<>>
                   /\ pendingNotifications' = [pendingNotifications EXCEPT ![e] = {}]
                   /\ reportedIn' = [reportedIn EXCEPT ![e] = NoReports]
              ELSE /\ emitted' = <<>>
                   /\ UNCHANGED <<pendingNotifications, reportedIn>>
      ELSE /\ emitted' = <<>>
           /\ UNCHANGED <<batchCounter, pendingNotifications, reportedIn>>

\* The method's promise reaches batchNotifications for the first time while
\* the batch is still open.
ClosesEarly(t) ==
  tasks[t].scopes = 1 /\ DecoratorClosesAt(tasks[t].isAsync) = "returned"

\* await in the body of an async decorated method: at the first one the
\* method hands its promise to batchNotifications.
DecoratedAwait(t) ==
  /\ Running(t, "decorated")
  /\ tasks[t].isAsync
  /\ DecoratorEffect(t, tasks[t].target, ClosesEarly(t), NoError)
  /\ tasks' = [tasks EXCEPT ![t].pc = "susp",
                            ![t].scopes = IF ClosesEarly(t) THEN 0 ELSE @]
  /\ active' = NoTask
  /\ lastOp' = Op("step", tasks[t].target, {})
  /\ UNCHANGED <<serial, prefabs, deliveries, deps, listeners>>

\* The decorated method returns, or its promise settles, with result r
\* (NoError, or the error thrown): batchNotifications completes.
DecoratedReturn(t, r) ==
  LET e == tasks[t].target
  IN  /\ Running(t, "decorated")
      /\ DecoratorEffect(t, e, tasks[t].scopes = 1, r)
      /\ tasks' = [tasks EXCEPT ![t] = IdleTask]
      /\ active' = NoTask
      /\ lastOp' = [Op("return", e, Window(e)) EXCEPT
                      !.task = t,
                      !.parts = reportedIn[e],
                      !.result = r,
                      !.outcome = Propagate(r),
                      !.isAsync = tasks[t].isAsync]
      /\ UNCHANGED <<serial, prefabs, deliveries, deps, listeners>>

\* Decorated methods called by either operation, and the same body run by
\* hand inside this.batchNotifications() by the second one.
NextDecorated ==
  \/ \E e \in Entities, o \in Observers : Subscribe(e, o)
  \/ \E e \in Entities, o \in Observers : Unsubscribe(e, o)
  \/ \E t \in Tasks, e \in Entities, async \in BOOLEAN : DecoratedCall(t, e, async)
  \/ \E t \in Tasks, S \in KeySets : DecoratedNotify(t, S)
  \/ \E t \in Tasks : DecoratedAwait(t)
  \/ \E t \in Tasks, r \in Results : DecoratedReturn(t, r)
  \/ \E t \in Tasks : Resume(t)
  \/ \E e \in Entities : BatchOpen("t2", e)
  \/ \E S \in KeySets : BatchNotify("t2", S)
  \/ Await("t2")
  \/ BatchClose("t2")

SpecDecorated == Init /\ [][NextDecorated]_vars

\* ------------------------------------------------------------ instances
\* Three objects: e1 and e2 constructed from the same class
\* extends PubSubMixin(BaseCounter), e3 from a class obtained by calling
\* PubSubMixin(BaseCounter) a second time.
Instances == {"e1", "e2", "e3"}
TypeOf(e) == IF e = "e3" THEN "Mixin2" ELSE "Mixin1"

\* The state after constructing the objects es: each has its own, empty,
\* listener set, counter and pending set.
InitOn(es) ==
  /\ deps \in TypeGraphs
  /\ listeners = [e \in es |-> {}]
  /\ batchCounter = [e \in es |-> 0]
  /\ pendingNotifications = [e \in es |-> {}]
  /\ active = NoTask
  /\ tasks = [t \in Tasks |-> IdleTask]
  /\ emitted = <<>>
  /\ lastOp = NoOp
  /\ reportedIn = [e \in es |-> NoReports]
  /\ NothingSerialized
  /\ NoPrefabs
  /\ deliveries = Nothing

InitMixin == InitOn(Instances)

\* subscribe, notify and @Notifies methods on the three objects.
NextMixin ==
  \/ \E e \in Instances, o \in Observers : Subscribe(e, o)
  \/ \E e \in Instances, o \in Observers : Unsubscribe(e, o)
  \/ \E e \in Instances, S \in KeySets : CallNotify("t1", e, S)
  \/ \E e \in Instances, m \in Methods : WrappedCall("t1", e, m, FALSE)
  \/ \E r \in Results : WrappedFinish("t1", r)

SpecMixin == InitMixin /\ [][NextMixin]_vars

\* Two objects, each with batches of its own.
Pair == {"e1", "e2"}

InitPair == InitOn(Pair)

\* work running in a batch of one object calls notify(...S) on object e.
NotifyOther(t, e, S) ==
  /\ Running(t, "batch")
  /\ tasks[t].raised = NoError
  /\ e # tasks[t].target
  /\ NotifyEffect(t, e, S)
  /\ lastOp' = Op("notify", e, S)
  /\ UNCHANGED <<serial, prefabs, deliveries, deps, listeners, batchCounter, active, tasks>>

\* The first operation runs batches (on either object) whose work may touch
\* the other object; the second one notifies from top-level code while the
\* first is suspended or done.
NextPair ==
  \/ \E e \in Pair, o \in Observers : Subscribe(e, o)
  \/ \E e \in Pair, o \in Observers : Unsubscribe(e, o)
  \/ \E e \in Pair, S \in KeySets : CallNotify("t2", e, S)
  \/ \E e \in Pair : BatchOpen("t1", e)
  \/ \E S \in KeySets : BatchNotify("t1", S)
  \/ \E e \in Pair, S \in KeySets : NotifyOther("t1", e, S)
  \/ Await("t1")
  \/ Resume("t1")
  \/ BatchClose("t1")

SpecPair == InitPair /\ [][NextPair]_vars

\* ------------------------------------------- subscribe as its caller sees it
\* What subscribe hands back to its caller: nothing (subscribe(...): void).
SubscribeReturns(o) == "void"

\* subscribe(callback), with the callback and the value handed back recorded.
SubscribeCall(e, o) ==
  /\ Register(e, o)
  /\ lastOp' = [Op("subscribe", e, {}) EXCEPT
                  !.observer = o, !.outcome = SubscribeReturns(o)]

\* unsubscribe(callback), with the callback recorded.
UnsubscribeCall(e, o) ==
  /\ Unregister(e, o)
  /\ lastOp' = [Op("unsubscribe", e, {}) EXCEPT !.observer = o]

\* Callbacks come and go while keys are notified, batched or not, over every
\* acyclic @DependsOn declaration.
NextSubscribe ==
  \/ \E e \in Entities, o \in Observers : SubscribeCall(e, o)
  \/ \E e \in Entities, o \in Observers : UnsubscribeCall(e, o)
  \/ \E e \in Entities, S \in KeySets : CallNotify("t1", e, S)
  \/ \E e \in Entities : BatchOpen("t1", e)
  \/ \E S \in KeySets : BatchNotify("t1", S)
  \/ BatchClose("t1")

SpecSubscribe == InitAnyGraph /\ [][NextSubscribe]_vars

\* ------------------------------------------------ hydrate and dehydrate
\* largest absolute value of a Sprite coordinate
MaxCoord == 2
Coords == (0 - MaxCoord)..MaxCoord

\* A property of a plain object: a number, a value of another type, or no
\* such property.
Num(n) == [t |-> "number", v |-> n]
NotANumber == [t |-> "string", v |-> 0]
Absent == [t |-> "absent", v |-> 0]

\* new Sprite(x, y), and its getter position.
Sprite(x, y) == [kind |-> "Sprite", x |-> x, y |-> y]
position(sprite) == [x |-> sprite.x, y |-> sprite.y]

\* UserProfileData: the type inferred from UserProfileSchema (id and username
\* are strings, lastLogin an optional number).
Ids == {"a uuid", "not a uuid"}
Usernames == {"al", "alice"}
Length(username) == IF username = "al" THEN 2 ELSE 5
Null == [kind |-> "null"]
ProfileData ==
  [kind : {"object"}, id : Ids, username : Usernames,
   hasLastLogin : BOOLEAN, lastLogin : {0}]
  \cup [kind : {"object"}, id : Ids, username : Usernames,
        hasLastLogin : {TRUE}, lastLogin : {1}]

\* new UserProfileManager(initialData), initialData defaulting to null.
UserProfileManager(initialData) ==
  [kind |-> "UserProfileManager", profile |-> initialData]

\* serializableClassesRegistry = { Sprite, ... }: the classes registered
\* under their names.
ClassNames == {"Sprite", "UserProfileManager"}

\* The objects dehydration may be given.
Sprites == {Sprite(x, y) : x \in Coords, y \in Coords}
Managers == {UserProfileManager(d) : d \in ProfileData \cup {Null}}

\* UserProfileSchema.parse(raw) succeeds: an object whose id is a uuid and
\* whose username has at least 3 characters.
SchemaAccepts(raw) ==
  /\ raw.kind = "object"
  /\ {"id", "username"} \subseteq DOMAIN raw
  /\ raw.id = "a uuid"
  /\ Length(raw.username) >= 3

Failure(message) == [kind |-> "error", message |-> message]

\* instance.dehydrate()
dehydrate(obj) ==
  IF obj.kind = "Sprite"
  THEN [kind |-> "object", x |-> Num(obj.x), y |-> Num(obj.y)]
  ELSE obj.profile

\* "x" in obj && typeof obj.x === "number" && "y" in obj && typeof obj.y === "number"
SpriteParams(raw) ==
  /\ raw.kind = "object"
  /\ {"x", "y"} \subseteq DOMAIN raw
  /\ raw.x.t # "absent" /\ raw.x.t = "number"
  /\ raw.y.t # "absent" /\ raw.y.t = "number"

\* The coordinate a Sprite is given when the plain value has no usable one.
OrZero(p) == IF p.t = "number" THEN p.v ELSE 0

\* Invalid input is replaced by default values instead of being refused.
hydrateWithDefaults(name, raw) ==
  IF name = "Sprite"
  THEN IF raw.kind = "object" /\ {"x", "y"} \subseteq DOMAIN raw
       THEN Sprite(OrZero(raw.x), OrZero(raw.y))
       ELSE Sprite(0, 0)
  ELSE IF raw.kind = "object" /\ "id" \in DOMAIN raw
       THEN UserProfileManager(raw)
       ELSE UserProfileManager(Null)

\* The static hydrate of the class registered under name, applied to a plain
\* value: the new instance, or the error thrown.
hydrate(name, raw) ==
  IF name = "Sprite"
  THEN IF SpriteParams(raw)
       THEN Sprite(raw.x.v, raw.y.v)
       ELSE Failure("invalid params")
  ELSE IF SchemaAccepts(raw)
       THEN UserProfileManager(raw)
       ELSE Failure("ZodError")

\* An object exists on the server side.
InitHydration ==
  /\ deps = NoGetter
  /\ listeners = [e \in Entities |-> {}]
  /\ batchCounter = [e \in Entities |-> 0]
  /\ pendingNotifications = [e \in Entities |-> {}]
  /\ active = NoTask
  /\ tasks = [t \in Tasks |-> IdleTask]
  /\ emitted = <<>>
  /\ lastOp = NoOp
  /\ reportedIn = [e \in Entities |-> NoReports]
  /\ instance \in Sprites \cup Managers
  /\ dehydratedData = Nothing
  /\ hydrated = Nothing
  /\ registry = ClassNames
  /\ hydrating = Nothing
  /\ NoPrefabs
  /\ deliveries = Nothing

\* dehydrateInstances: the object is reduced to plain data, kept with the
\* name of its class.
Dehydrate ==
  /\ dehydratedData = Nothing
  /\ dehydratedData' = [kind |-> "dehydrated", name |-> instance.kind,
                        data |-> dehydrate(instance)]
  /\ UNCHANGED <<prefabs, deliveries, instance, hydrated, registry, hydrating, deps, listeners, batchCounter,
                 pendingNotifications, active, tasks, emitted, lastOp, reportedIn>>

\* The hydration hook: the class is looked up by name and its hydrate is
\* applied to the plain data.
Hydrate ==
  /\ dehydratedData # Nothing
  /\ hydrated = Nothing
  /\ hydrated' = hydrate(dehydratedData.name, dehydratedData.data)
  /\ UNCHANGED <<prefabs, deliveries, instance, dehydratedData, registry, hydrating, deps, listeners,
                 batchCounter, pendingNotifications, active, tasks, emitted, lastOp,
                 reportedIn>>

NextHydration ==
  \/ Dehydrate
  \/ Hydrate

SpecHydration == InitHydration /\ [][NextHydration]_vars

\* ------------------------------------------------- declaring @DependsOn
\* The class is being defined: decorators run, no instance is in use yet.
Loading == lastOp.op \in {"init", "declare"}

\* @DependsOn(...bases) on getter f, applied when the class is defined: the
\* list is stored in the shared dependency table.  Nothing inspects the
\* table for circular declarations; avoiding them is left to the author of
\* the class.
Declare(f, bases) ==
  /\ Loading
  /\ deps[f] = {}
  /\ deps' = [deps EXCEPT ![f] = bases]
  /\ emitted' = <<>>
  /\ lastOp' = [Op("declare", NoEntity, bases) EXCEPT !.outcome = "ok"]
  /\ UNCHANGED <<serial, prefabs, deliveries, listeners, batchCounter, pendingNotifications, active, tasks, reportedIn>>

\* Notifying S reaches a getter that depends on itself: the notification
\* never comes to an end.
Loops(d, S) ==
  \E f \in Facets :
    /\ Reads(d, f, Cardinality(Facets)) \cap S # {}
    /\ \E g \in d[f] : f \in Reads(d, g, Cardinality(Facets))

\* entity.notify(...S) on a class defined as above.  On a circular
\* declaration the call never returns: the thread stays inside notify.
NotifyDeclared(t, e, S) ==
  IF Loops(deps, S)
  THEN /\ CanStart(t)
       /\ tasks' = [tasks EXCEPT ![t] =
                      [IdleTask EXCEPT !.pc = "loop", !.kind = "notify",
                                       !.target = e, !.keys = S]]
       /\ active' = t
       /\ emitted' = <<>>
       /\ lastOp' = Op("loop", e, S)
       /\ UNCHANGED <<serial, prefabs, deliveries, deps, listeners, batchCounter, pendingNotifications, reportedIn>>
  ELSE CallNotify(t, e, S)

InitDeclare ==
  /\ deps = NoGetter
  /\ listeners = [e \in Entities |-> {}]
  /\ batchCounter = [e \in Entities |-> 0]
  /\ pendingNotifications = [e \in Entities |-> {}]
  /\ active = NoTask
  /\ tasks = [t \in Tasks |-> IdleTask]
  /\ emitted = <<>>
  /\ lastOp = NoOp
  /\ reportedIn = [e \in Entities |-> NoReports]
  /\ NothingSerialized
  /\ NoPrefabs
  /\ deliveries = Nothing

NextDeclare ==
  \/ \E f \in Facets, bases \in KeySets : Declare(f, bases)
  \/ \E e \in Entities, o \in Observers : Subscribe(e, o)
  \/ \E e \in Entities, o \in Observers : Unsubscribe(e, o)
  \/ \E e \in Entities, S \in KeySets : NotifyDeclared("t1", e, S)

SpecDeclare == InitDeclare /\ [][NextDeclare]_vars

\* ------------------------------------------- hydrate on any plain input
\* The plain values hydrate may be handed: objects with or without numeric
\* x and y, profile objects, null.
Props == {Num(n) : n \in Coords} \cup {NotANumber, Absent}
PlainInputs ==
  [kind : {"object"}, x : Props, y : Props] \cup ProfileData \cup {Null}

\* A payload arrived on the client side; nothing is hydrated yet.
InitHydrateInput ==
  /\ deps = NoGetter
  /\ listeners = [e \in Entities |-> {}]
  /\ batchCounter = [e \in Entities |-> 0]
  /\ pendingNotifications = [e \in Entities |-> {}]
  /\ active = NoTask
  /\ tasks = [t \in Tasks |-> IdleTask]
  /\ emitted = <<>>
  /\ lastOp = NoOp
  /\ reportedIn = [e \in Entities |-> NoReports]
  /\ instance = Nothing
  /\ dehydratedData \in {[kind |-> "dehydrated", name |-> n, data |-> d] :
                           n \in ClassNames, d \in PlainInputs}
  /\ hydrated = Nothing
  /\ registry = ClassNames
  /\ hydrating = Nothing
  /\ NoPrefabs
  /\ deliveries = Nothing

SpecHydrateInput == InitHydrateInput /\ [][Hydrate]_vars

\* ------------------------------------------------------ hydrateInstances
\* The keys of the hydrated props, in the order hydrateInstances visits them.
PropNames == {"playerSprite", "profile"}
PropOrder == <<"playerSprite", "profile">>

\* The plain values found under the keys of a dehydrated mapping.
BulkInputs ==
  {dehydrate(Sprite(0, 1)),
   [kind |-> "object", x |-> Num(1), y |-> NotANumber],
   dehydrate(UserProfileManager([kind |-> "object", id |-> "a uuid",
                                 username |-> "alice", hasLastLogin |-> FALSE,
                                 lastLogin |-> 0])),
   Null}

\* The registries in use: the one of the Sprite example, and one that also
\* holds UserProfileManager.
Registries == {{"Sprite"}, ClassNames}

\* resolve(name): the hydrate operation registered under name, or not-found.
NotFound == [kind |-> "not-found"]
resolve(reg, name) ==
  IF name \in reg THEN [kind |-> "hydrateFn", name |-> name] ELSE NotFound

\* An entry whose name resolves to nothing is left as plain data.
hydrateEntrySkipping(reg, entry) ==
  IF resolve(reg, entry.name) = NotFound
  THEN entry.data
  ELSE hydrate(entry.name, entry.data)

\* One entry of the mapping is reconstructed through the registry: the
\* instance, the error thrown by its hydrate, or the error of a name that
\* has no entry in the registry.
hydrateEntry(reg, entry) ==
  IF resolve(reg, entry.name) = NotFound
  THEN Failure("no class registered")
  ELSE hydrate(resolve(reg, entry.name).name, entry.data)

\* The first key not reconstructed yet.
RECURSIVE NextProp(_, _)
NextProp(done, i) ==
  IF done[PropOrder[i]] = Nothing THEN PropOrder[i] ELSE NextProp(done, i + 1)

\* Every entry built so far is handed out as soon as it exists.
ExposedAsBuilt(done) == [kind |-> "instances", of |-> done]

\* What hydrateInstances hands to its consumer: the mapping once every
\* entry is reconstructed, nothing before.
Exposed(done) ==
  IF \A k \in PropNames : done[k] # Nothing
  THEN [kind |-> "instances", of |-> done]
  ELSE Nothing

\* A dehydrated mapping arrived on the client side.
InitHydrateAll ==
  /\ deps = NoGetter
  /\ listeners = [e \in Entities |-> {}]
  /\ batchCounter = [e \in Entities |-> 0]
  /\ pendingNotifications = [e \in Entities |-> {}]
  /\ active = NoTask
  /\ tasks = [t \in Tasks |-> IdleTask]
  /\ emitted = <<>>
  /\ lastOp = NoOp
  /\ reportedIn = [e \in Entities |-> NoReports]
  /\ instance = Nothing
  /\ dehydratedData \in [PropNames -> [name : ClassNames, data : BulkInputs]]
  /\ hydrated = Nothing
  /\ registry \in Registries
  /\ hydrating = Nothing
  /\ NoPrefabs
  /\ deliveries = Nothing

\* hydrateInstances(dehydratedData) is called.
HydrateInstancesCall ==
  /\ hydrated = Nothing
  /\ hydrating = Nothing
  /\ hydrating' = [kind |-> "progress", done |-> [k \in PropNames |-> Nothing]]
  /\ UNCHANGED <<prefabs, deliveries, instance, dehydratedData, hydrated, registry, deps, listeners,
                 batchCounter, pendingNotifications, active, tasks, emitted, lastOp,
                 reportedIn>>

\* hydrateInstances reconstructs its next entry: a failure ends the call
\* with that error, the last entry ends it with the mapping.
HydrateEntry ==
  /\ hydrating # Nothing
  /\ LET k == NextProp(hydrating.done, 1)
         built == hydrateEntry(registry, dehydratedData[k])
         done == [hydrating.done EXCEPT ![k] = built]
     IN IF built.kind = "error"
        THEN /\ hydrated' = built
             /\ hydrating' = Nothing
        ELSE /\ hydrated' = Exposed(done)
             /\ hydrating' = IF Exposed(done) = Nothing
                             THEN [hydrating EXCEPT !.done = done]
                             ELSE Nothing
  /\ UNCHANGED <<prefabs, deliveries, instance, dehydratedData, registry, deps, listeners, batchCounter,
                 pendingNotifications, active, tasks, emitted, lastOp, reportedIn>>

NextHydrateAll ==
  \/ HydrateInstancesCall
  \/ HydrateEntry

SpecHydrateAll == InitHydrateAll /\ [][NextHydrateAll]_vars

\* ------------------------------------------------------- abandoned work
\* The promise awaited by the work of t1 never settles: t1 is never resumed.
\* Other code goes on using the entity.
Abandoned == "t1"

NextAbandon ==
  \/ \E e \in Entities, o \in Observers : Subscribe(e, o)
  \/ \E t \in Tasks, e \in Entities, S \in KeySets : CallNotify(t, e, S)
  \/ \E t \in Tasks, e \in Entities : BatchOpen(t, e)
  \/ \E t \in Tasks, S \in KeySets : BatchNotify(t, S)
  \/ \E t \in Tasks : Await(t)
  \/ \E t \in Tasks \ {Abandoned} : Resume(t)
  \/ \E t \in Tasks : BatchClose(t)

SpecAbandon == Init /\ [][NextAbandon]_vars

\* ------------------------------------------------------ HybridCommandBus
CommandTypes == {"UpdateUserProfile", "DeleteUser"}
CommandHandlers == {"h1", "h2"}
NoHandler == "none"

\* A command: its type and whether it carries isRemote = true.
Commands == [type : CommandTypes, isRemote : BOOLEAN]

\* The last call made on the bus: the operation, the command type, the
\* handler given to a registration, the remote mark of the command, the
\* handlers executed, whether the remote sender was called, and the error
\* code the call ended with.
NoBusCall ==
  [op |-> "none", type |-> "none", handler |-> NoHandler, isRemote |-> FALSE,
   executed |-> <<>>, sent |-> FALSE, code |-> "ok"]

\* new HybridCommandBus({ remoteSender, monitoringService })
HybridCommandBus(hasRemoteSender) ==
  [kind |-> "HybridCommandBus",
   handlers |-> [c \in CommandTypes |-> NoHandler],
   remoteSender |-> hasRemoteSender,
   last |-> NoBusCall]

\* The new handler takes the place of the one registered before.
registerLocalHandlerOverriding(bus, type, handler) ==
  [bus EXCEPT !.handlers[type] = handler,
              !.last = [NoBusCall EXCEPT !.op = "register", !.type = type,
                                         !.handler = handler]]

\* commandBus.registerLocalHandler(type, handler)
registerLocalHandler(bus, type, handler) ==
  IF bus.handlers[type] # NoHandler
  THEN [bus EXCEPT !.last = [NoBusCall EXCEPT
                               !.op = "register", !.type = type, !.handler = handler,
                               !.code = "MULTIPLE_HANDLERS_FOR_COMMAND"]]
  ELSE [bus EXCEPT !.handlers[type] = handler,
                   !.last = [NoBusCall EXCEPT !.op = "register", !.type = type,
                                              !.handler = handler]]

\* commandBus.dispatch(command), the handler or the sender succeeding or not.
dispatch(bus, command, succeeds) ==
  LET call == [NoBusCall EXCEPT !.op = "dispatch", !.type = command.type,
                                !.isRemote = command.isRemote]
  IN  IF command.isRemote
      THEN IF ~bus.remoteSender
           THEN [bus EXCEPT !.last = [call EXCEPT !.code = "REMOTE_SENDER_NOT_CONFIGURED"]]
           ELSE [bus EXCEPT !.last =
                   [call EXCEPT !.sent = TRUE,
                                !.code = IF succeeds THEN "ok" ELSE "REMOTE_SEND_FAILED"]]
      ELSE IF bus.handlers[command.type] = NoHandler
           THEN [bus EXCEPT !.last = [call EXCEPT !.code = "NO_HANDLER_FOR_COMMAND"]]
           ELSE [bus EXCEPT !.last =
                   [call EXCEPT !.executed = <<bus.handlers[command.type]>>,
                                !.code = IF succeeds THEN "ok"
                                         ELSE "LOCAL_HANDLER_EXECUTION_FAILED"]]

\* The bus is constructed at application startup, with or without a remote
\* sender.
InitCommandBus ==
  /\ deps = NoGetter
  /\ listeners = [e \in Entities |-> {}]
  /\ batchCounter = [e \in Entities |-> 0]
  /\ pendingNotifications = [e \in Entities |-> {}]
  /\ active = NoTask
  /\ tasks = [t \in Tasks |-> IdleTask]
  /\ emitted = <<>>
  /\ lastOp = NoOp
  /\ reportedIn = [e \in Entities |-> NoReports]
  /\ NothingSerialized
  /\ deliveries = Nothing
  /\ commandBus \in {HybridCommandBus(s) : s \in BOOLEAN}
  /\ eventBus = Nothing
  /\ caretaker = Nothing

RegisterLocalHandler(type, handler) ==
  /\ commandBus' = registerLocalHandler(commandBus, type, handler)
  /\ UNCHANGED <<pubsub, serial, eventBus, caretaker>>

Dispatch(command, succeeds) ==
  /\ commandBus' = dispatch(commandBus, command, succeeds)
  /\ UNCHANGED <<pubsub, serial, eventBus, caretaker>>

NextCommandBus ==
  \/ \E type \in CommandTypes, handler \in CommandHandlers :
        RegisterLocalHandler(type, handler)
  \/ \E command \in Commands, succeeds \in BOOLEAN : Dispatch(command, succeeds)

SpecCommandBus == InitCommandBus /\ [][NextCommandBus]_vars

\* -------------------------------------------------------- HybridEventBus
EventTypes == {"UserProfileUpdated", "ThemeChanged"}
EventHandlers == {"h1", "h2"}
RemotePath == "remote"

\* An event: its type and whether it carries isRemote = true.
Events == [type : EventTypes, isRemote : BOOLEAN]

\* The last publish: the event, the handlers that throw and whether the
\* remote publisher fails, the local handlers executed in order, whether the
\* event was sent to the remote publisher, and the failures handed to the
\* monitoring port.
NoPublish ==
  [op |-> "none", type |-> "none", isRemote |-> FALSE, failing |-> {},
   remoteFails |-> FALSE, executed |-> <<>>, sent |-> FALSE, monitored |-> {}]

\* new HybridEventBus(...): Map<string, LocalEventHandler[]> is empty.
HybridEventBus ==
  [kind |-> "HybridEventBus",
   handlers |-> [t \in EventTypes |-> <<>>],
   last |-> NoPublish]

Range(s) == {s[i] : i \in DOMAIN s}

\* eventBus.registerLocalHandler(eventType, handler)
registerLocalEventHandler(bus, eventType, handler) ==
  [bus EXCEPT !.handlers[eventType] = Append(@, handler), !.last = NoPublish]

\* eventBus.unregisterLocalHandler(eventType, handler)
unregisterLocalHandler(bus, eventType, handler) ==
  [bus EXCEPT !.handlers[eventType] = SelectSeq(@, LAMBDA h : h # handler),
              !.last = NoPublish]

\* The first failure ends the publish.
AfterFailureStop(rest) == <<>>

\* What is still executed after one path of a publish failed: each one runs
\* inside its own try/catch, so all the others.
AfterFailure(rest) == rest

\* The local handlers and the remote path are run one after the other, a
\* failure being caught and handed to the monitoring port.
RECURSIVE execute(_, _)
execute(paths, failing) ==
  IF paths = <<>>
  THEN [executed |-> <<>>, errors |-> {}]
  ELSE LET failed == Head(paths) \in failing
           then == execute(IF failed THEN AfterFailure(Tail(paths)) ELSE Tail(paths),
                           failing)
       IN  [executed |-> <<Head(paths)>> \o then.executed,
            errors |-> (IF failed THEN {Head(paths)} ELSE {}) \cup then.errors]

\* eventBus.publish(event): the local handlers of the event type are run
\* and, for a remote event, the event is routed to the remote publisher; the
\* two paths start in either order.
publish(bus, event, failing, remoteFails, remoteFirst) ==
  LET local == bus.handlers[event.type]
      paths == IF ~event.isRemote THEN local
               ELSE IF remoteFirst THEN <<RemotePath>> \o local
               ELSE local \o <<RemotePath>>
      run == execute(paths, failing \cup (IF remoteFails THEN {RemotePath} ELSE {}))
  IN  [bus EXCEPT !.last =
         [op |-> "publish", type |-> event.type, isRemote |-> event.isRemote,
          failing |-> failing, remoteFails |-> remoteFails,
          executed |-> SelectSeq(run.executed, LAMBDA p : p # RemotePath),
          sent |-> RemotePath \in Range(run.executed),
          monitored |-> run.errors]]

InitEventBus ==
  /\ deps = NoGetter
  /\ listeners = [e \in Entities |-> {}]
  /\ batchCounter = [e \in Entities |-> 0]
  /\ pendingNotifications = [e \in Entities |-> {}]
  /\ active = NoTask
  /\ tasks = [t \in Tasks |-> IdleTask]
  /\ emitted = <<>>
  /\ lastOp = NoOp
  /\ reportedIn = [e \in Entities |-> NoReports]
  /\ NothingSerialized
  /\ deliveries = Nothing
  /\ commandBus = Nothing
  /\ eventBus = HybridEventBus
  /\ caretaker = Nothing

\* A handler is registered once per event type.
RegisterLocalEventHandler(eventType, handler) ==
  /\ handler \notin Range(eventBus.handlers[eventType])
  /\ eventBus' = registerLocalEventHandler(eventBus, eventType, handler)
  /\ UNCHANGED <<pubsub, serial, commandBus, caretaker>>

UnregisterLocalHandler(eventType, handler) ==
  /\ eventBus' = unregisterLocalHandler(eventBus, eventType, handler)
  /\ UNCHANGED <<pubsub, serial, commandBus, caretaker>>

Publish(event, failing, remoteFails, remoteFirst) ==
  /\ eventBus' = publish(eventBus, event, failing, remoteFails, remoteFirst)
  /\ UNCHANGED <<pubsub, serial, commandBus, caretaker>>

NextEventBus ==
  \/ \E t \in EventTypes, h \in EventHandlers : RegisterLocalEventHandler(t, h)
  \/ \E t \in EventTypes, h \in EventHandlers : UnregisterLocalHandler(t, h)
  \/ \E event \in Events, failing \in SUBSET EventHandlers,
        remoteFails \in BOOLEAN, remoteFirst \in BOOLEAN :
        Publish(event, failing, remoteFails, remoteFirst)

SpecEventBus == InitEventBus /\ [][NextEventBus]_vars

\* ---------------------------------------------------------- BaseCaretaker
\* TextEditorState: the text of the originator, and the longest history kept.
MaxText == 2
MaxHistory == 3
Texts == 0..MaxText

\* RestoreMementoAction
RestoreMementoAction == [Undo |-> "undo", Redo |-> "redo"]

\* originator.getMemento(state): the memento is the full state.
getMemento(state) == state

\* The last call made on the caretaker or its originator: the operation,
\* the arguments restoreMemento was called with (none: -1), and the
\* historyPointer and history length before the call, and the call made
\* before this one.
NoCaretakerCall ==
  [op |-> "none", action |-> "none", memento |-> -1, from |-> -1, length |-> 0,
   after |-> "none"]

\* canUndo and canRedo, from historyPointer and history.
canUndo(c) == c.historyPointer > 0
canRedo(c) == c.historyPointer < Len(c.history) - 1

\* The new memento is pushed behind whatever history holds.
saveStateKeepingRedo(c) ==
  [c EXCEPT !.history = Append(@, getMemento(c.originator)),
            !.historyPointer = @ + 1,
            !.last = [NoCaretakerCall EXCEPT !.op = "saveState",
                                             !.from = c.historyPointer,
                                             !.length = Len(c.history),
                                             !.after = c.last.op]]

\* caretaker.saveState(): the snapshot is pushed to history, any redo
\* history being cut off when the pointer is not at the end.
saveState(c) ==
  LET kept == SubSeq(c.history, 1, c.historyPointer + 1)
  IN  [c EXCEPT !.history = Append(kept, getMemento(c.originator)),
                !.historyPointer = Len(kept),
                !.last = [NoCaretakerCall EXCEPT !.op = "saveState",
                                                 !.from = c.historyPointer,
                                                 !.length = Len(c.history),
                                                 !.after = c.last.op]]

\* new BaseCaretaker(originator): saveState() is called once.
BaseCaretaker(text) ==
  [saveState([kind |-> "BaseCaretaker", originator |-> text, history |-> <<>>,
              historyPointer |-> -1, last |-> NoCaretakerCall])
     EXCEPT !.last = NoCaretakerCall]

\* caretaker.undo(): historyPointer is decremented and the originator
\* restores the memento it now points at.
undo(c) ==
  LET memento == c.history[c.historyPointer]
  IN  [c EXCEPT !.historyPointer = @ - 1,
                !.originator = memento,
                !.last = [op |-> "undo", action |-> RestoreMementoAction.Undo,
                          memento |-> memento, from |-> c.historyPointer,
                          length |-> Len(c.history), after |-> c.last.op]]

\* The pointer jumps to the newest memento.
redoToLatest(c) ==
  [c EXCEPT !.historyPointer = Len(c.history) - 1,
            !.originator = c.history[Len(c.history)],
            !.last = [op |-> "redo", action |-> RestoreMementoAction.Redo,
                      memento |-> c.history[Len(c.history)],
                      from |-> c.historyPointer, length |-> Len(c.history),
                      after |-> c.last.op]]

\* caretaker.redo(): historyPointer is incremented and the originator
\* restores the memento it now points at.
redo(c) ==
  LET memento == c.history[c.historyPointer + 2]
  IN  [c EXCEPT !.historyPointer = @ + 1,
                !.originator = memento,
                !.last = [op |-> "redo", action |-> RestoreMementoAction.Redo,
                          memento |-> memento, from |-> c.historyPointer,
                          length |-> Len(c.history), after |-> c.last.op]]

InitCaretaker ==
  /\ deps = NoGetter
  /\ listeners = [e \in Entities |-> {}]
  /\ batchCounter = [e \in Entities |-> 0]
  /\ pendingNotifications = [e \in Entities |-> {}]
  /\ active = NoTask
  /\ tasks = [t \in Tasks |-> IdleTask]
  /\ emitted = <<>>
  /\ lastOp = NoOp
  /\ reportedIn = [e \in Entities |-> NoReports]
  /\ NothingSerialized
  /\ deliveries = Nothing
  /\ commandBus = Nothing
  /\ eventBus = Nothing
  /\ caretaker \in {BaseCaretaker(text) : text \in Texts}

\* originator.text = v
SetText(v) ==
  /\ caretaker' = [caretaker EXCEPT !.originator = v,
                                    !.last = [NoCaretakerCall EXCEPT
                                                !.op = "setText",
                                                !.from = caretaker.historyPointer,
                                                !.length = Len(caretaker.history),
                                                !.after = caretaker.last.op]]
  /\ UNCHANGED <<pubsub, serial, commandBus, eventBus>>

SaveState ==
  /\ caretaker.historyPointer + 2 <= MaxHistory
  /\ caretaker' = saveState(caretaker)
  /\ UNCHANGED <<pubsub, serial, commandBus, eventBus>>

\* The undo button, enabled when canUndo.
Undo ==
  /\ canUndo(caretaker)
  /\ caretaker' = undo(caretaker)
  /\ UNCHANGED <<pubsub, serial, commandBus, eventBus>>

\* The redo button, enabled when canRedo.
Redo ==
  /\ canRedo(caretaker)
  /\ caretaker' = redo(caretaker)
  /\ UNCHANGED <<pubsub, serial, commandBus, eventBus>>

NextCaretaker ==
  \/ \E v \in Texts : SetText(v)
  \/ SaveState
  \/ Undo
  \/ Redo

SpecCaretaker == InitCaretaker /\ [][NextCaretaker]_vars

\* ------------------------------------------ callbacks acting in a delivery
\* What the callback of an observer does when it is invoked: nothing, or a
\* subscribe or an unsubscribe of some observer.
NoCallbackCall == [op |-> "none", observer |-> "none"]
CallbackCalls ==
  [op : {"subscribe", "unsubscribe"}, observer : Observers] \cup {NoCallbackCall}

\* No delivery was started yet.
NoDelivery ==
  [kind |-> "idle", entity |-> NoEntity, facets |-> {}, start |-> {},
   queue |-> <<>>, invoked |-> <<>>, calls |-> <<>>]

\* The subscriber list copied when a delivery starts.
Snapshot(subs) == SelectSeq(ObserverOrder, LAMBDA o : o \in subs)

\* The listener set after the call made by a callback.
AfterCallback(subs, call) ==
  IF call.op = "subscribe" THEN subs \cup {call.observer}
  ELSE IF call.op = "unsubscribe" THEN Remove(subs, call.observer)
  ELSE subs

\* The live listener set is iterated: whoever is subscribed now and was not
\* invoked yet.
RemainingLive(queue, live, invoked) ==
  SelectSeq(ObserverOrder, LAMBDA o : o \in live /\ o \notin Range(invoked))

\* The observers still to invoke after the head of the queue was invoked:
\* the rest of the snapshot, whatever the live listener set has become.
Remaining(queue, live, invoked) == Tail(queue)

InitSnapshot ==
  /\ deps = NoGetter
  /\ listeners = [e \in Entities |-> {}]
  /\ batchCounter = [e \in Entities |-> 0]
  /\ pendingNotifications = [e \in Entities |-> {}]
  /\ active = NoTask
  /\ tasks = [t \in Tasks |-> IdleTask]
  /\ emitted = <<>>
  /\ lastOp = NoOp
  /\ reportedIn = [e \in Entities |-> NoReports]
  /\ NothingSerialized
  /\ NoPrefabs
  /\ deliveries = NoDelivery

\* subscribe and unsubscribe called from top-level code, between deliveries.
SubscribeBetween(e, o) ==
  /\ deliveries.kind # "delivering"
  /\ listeners' = [listeners EXCEPT ![e] = @ \cup {o}]
  /\ emitted' = <<>>
  /\ lastOp' = Op("step", e, {})
  /\ UNCHANGED <<serial, prefabs, deliveries, deps, batchCounter,
                 pendingNotifications, active, tasks, reportedIn>>

UnsubscribeBetween(e, o) ==
  /\ deliveries.kind # "delivering"
  /\ listeners' = [listeners EXCEPT ![e] = Remove(@, o)]
  /\ emitted' = <<>>
  /\ lastOp' = Op("step", e, {})
  /\ UNCHANGED <<serial, prefabs, deliveries, deps, batchCounter,
                 pendingNotifications, active, tasks, reportedIn>>

\* notify(...S) with no batch open: the delivery starts.
StartDelivery(e, S) ==
  /\ deliveries.kind # "delivering"
  /\ deliveries' =
       [kind |-> IF Subscribers(listeners, e) = {} THEN "done" ELSE "delivering",
        entity |-> e, facets |-> NotifyKeys(deps, S),
        start |-> Subscribers(listeners, e),
        queue |-> Snapshot(Subscribers(listeners, e)),
        invoked |-> <<>>, calls |-> <<>>]
  /\ emitted' = <<>>
  /\ lastOp' = Op("notify", e, S)
  /\ UNCHANGED <<serial, prefabs, deps, listeners, batchCounter,
                 pendingNotifications, active, tasks, reportedIn>>

\* The next observer is invoked and its callback makes its call.
InvokeObserver(call) ==
  /\ deliveries.kind = "delivering"
  /\ LET e == deliveries.entity
         o == Head(deliveries.queue)
         live == AfterCallback(listeners[e], call)
         invoked == Append(deliveries.invoked, o)
         rest == Remaining(deliveries.queue, live, invoked)
     IN  /\ emitted' = <<Call(e, o, deliveries.facets)>>
         /\ listeners' = [listeners EXCEPT ![e] = live]
         /\ deliveries' = [deliveries EXCEPT
                             !.kind = IF rest = <<>> THEN "done" ELSE "delivering",
                             !.queue = rest,
                             !.invoked = invoked,
                             !.calls = Append(@, call)]
         /\ lastOp' = Op("step", e, {})
  /\ UNCHANGED <<serial, prefabs, deps, batchCounter, pendingNotifications,
                 active, tasks, reportedIn>>

NextSnapshot ==
  \/ \E e \in Entities, o \in Observers : SubscribeBetween(e, o)
  \/ \E e \in Entities, o \in Observers : UnsubscribeBetween(e, o)
  \/ \E e \in Entities, S \in KeySets : StartDelivery(e, S)
  \/ \E call \in CallbackCalls : InvokeObserver(call)

SpecSnapshot == InitSnapshot /\ [][NextSnapshot]_vars

\* --------------------------------------------------- deliveries in order
\* The deliveries recorded in one run.
MaxDeliveries == 2

\* The record of a run: for each observer the sets it was invoked with, in
\* order, and the keys of each unit that closed (an unbatched notify, or the
\* batches flushed together), in the order of closing.
EmptyLog ==
  [kind |-> "log", seen |-> [o \in Observers |-> <<>>], closed |-> <<>>]

\* The sets the calls hand to observer o, in the order of the calls.
SetsFor(o, calls) ==
  LET mine == SelectSeq(calls, LAMBDA c : c.observer = o)
  IN  [i \in DOMAIN mine |-> mine[i].facets]

\* The step is recorded: what it delivered and, if it closed a unit, the
\* keys of that unit.
Logged(closes, S) ==
  deliveries' =
    [deliveries EXCEPT
       !.seen = [o \in Observers |-> deliveries.seen[o] \o SetsFor(o, emitted')],
       !.closed = IF closes THEN Append(@, S) ELSE @]

\* Both observers are subscribed for the whole run, to an instance of the
\* type with the chain of getters.
InitOrdered ==
  /\ deps = Chain
  /\ listeners = [e \in Entities |-> Observers]
  /\ batchCounter = [e \in Entities |-> 0]
  /\ pendingNotifications = [e \in Entities |-> {}]
  /\ active = NoTask
  /\ tasks = [t \in Tasks |-> IdleTask]
  /\ emitted = <<>>
  /\ lastOp = NoOp
  /\ reportedIn = [e \in Entities |-> NoReports]
  /\ NothingSerialized
  /\ NoPrefabs
  /\ deliveries = EmptyLog

Recording == Len(deliveries.closed) < MaxDeliveries

NextOrdered ==
  \/ \E t \in Tasks, e \in Entities, S \in KeySets :
        /\ Recording
        /\ CallNotifyEffect(t, e, S)
        /\ Logged(batchCounter[e] = 0, S)
  \/ \E t \in Tasks, e \in Entities :
        /\ Recording
        /\ BatchOpenEffect(t, e)
        /\ Logged(FALSE, {})
  \/ \E t \in Tasks, S \in KeySets :
        /\ Recording
        /\ BatchNotifyEffect(t, S)
        /\ Logged(FALSE, {})
  \/ \E t \in Tasks :
        /\ Recording
        /\ AwaitEffect(t)
        /\ Logged(FALSE, {})
  \/ \E t \in Tasks :
        /\ Recording
        /\ ResumeEffect(t)
        /\ Logged(FALSE, {})
  \/ \E t \in Tasks :
        /\ Recording
        /\ BatchCloseEffect(t)
        /\ Logged(batchCounter'[tasks[t].target] = 0, Window(tasks[t].target))

SpecOrdered == InitOrdered /\ [][NextOrdered]_vars

\* ------------------------------------------------ the notified key list
\* Subscribers are handed the notified keys as a list (propNames).  The keys
\* one batch may be given before the record stops.
MaxReported == 4

\* The facets in declaration order.
FacetOrder == <<"a", "b", "c">>

\* The argument lists of one notify(...keys) call; a caller may name a key
\* twice.
KeyLists == UNION {[1..n -> Facets] : n \in 1..2}

\* The key is pushed on an array.
addPush(list, k) == Append(list, k)

\* pendingNotifications is a Set, kept here in insertion order: adding a key
\* it already holds changes nothing.
add(list, k) == IF k \in Range(list) THEN list ELSE Append(list, k)

RECURSIVE addAll(_, _)
addAll(list, ks) ==
  IF ks = <<>> THEN list ELSE addAll(add(list, Head(ks)), Tail(ks))

\* The getters declared with @DependsOn(..., k, ...), in declaration order.
DependentsOf(d, k) == SelectSeq(FacetOrder, LAMBDA f : k \in d[f])

\* The unique keys of one notification: every key of ks, each followed by
\* the getters depending on it, collected into list.
RECURSIVE collect(_, _, _)
collect(d, list, ks) ==
  IF ks = <<>> THEN list
  ELSE collect(d, collect(d, add(list, Head(ks)), DependentsOf(d, Head(ks))),
               Tail(ks))

\* pending: the Set of queued keys per entity; raw: every key given to
\* notify since the entity's counter was last zero (history); last: the list
\* handed to the subscribers by the last step; from: the keys it was made of
\* (history).
NoKeys ==
  [kind |-> "keys", pending |-> [e \in Entities |-> <<>>],
   raw |-> [e \in Entities |-> <<>>], last |-> <<>>, from |-> <<>>]

\* Both observers are subscribed for the whole run, to an instance of the
\* type whose getter reads two fields.
InitUnique ==
  /\ deps = FanIn
  /\ listeners = [e \in Entities |-> Observers]
  /\ batchCounter = [e \in Entities |-> 0]
  /\ pendingNotifications = [e \in Entities |-> {}]
  /\ active = NoTask
  /\ tasks = [t \in Tasks |-> IdleTask]
  /\ emitted = <<>>
  /\ lastOp = NoOp
  /\ reportedIn = [e \in Entities |-> NoReports]
  /\ NothingSerialized
  /\ NoPrefabs
  /\ deliveries = NoKeys

\* notify(...ks) on e, as a list: queued in the Set, or handed over at once.
Listed(e, ks) ==
  /\ Len(deliveries.raw[e]) + Len(ks) <= MaxReported
  /\ deliveries' =
       IF ShouldQueue(OpenBatches(batchCounter, e))
       THEN [deliveries EXCEPT !.pending[e] = addAll(@, ks),
                               !.raw[e] = @ \o ks,
                               !.last = <<>>, !.from = <<>>]
       ELSE [deliveries EXCEPT !.last = collect(deps, <<>>, ks), !.from = ks]

\* A batch function of task t settles: at a flush the Set is handed over and
\* cleared.
Flushed(t) ==
  LET e == tasks[t].target
  IN  deliveries' =
        IF ShouldFlush(batchCounter'[e], tasks[t].scopes - 1)
        THEN [deliveries EXCEPT !.last = collect(deps, <<>>, deliveries.pending[e]),
                                !.from = deliveries.raw[e],
                                !.pending[e] = <<>>,
                                !.raw[e] = <<>>]
        ELSE [deliveries EXCEPT !.last = <<>>, !.from = <<>>]

\* A step that notifies nothing.
Quiet == deliveries' = [deliveries EXCEPT !.last = <<>>, !.from = <<>>]

NextUnique ==
  \/ \E t \in Tasks, e \in Entities, ks \in KeyLists :
        CallNotifyEffect(t, e, Range(ks)) /\ Listed(e, ks)
  \/ \E t \in Tasks, e \in Entities : BatchOpenEffect(t, e) /\ Quiet
  \/ \E t \in Tasks, ks \in KeyLists :
        BatchNotifyEffect(t, Range(ks)) /\ Listed(tasks[t].target, ks)
  \/ \E t \in Tasks : AwaitEffect(t) /\ Quiet
  \/ \E t \in Tasks : ResumeEffect(t) /\ Quiet
  \/ \E t \in Tasks : BatchCloseEffect(t) /\ Flushed(t)

SpecUnique == InitUnique /\ [][NextUnique]_vars


\* ----------------------------------------------- failing observer callbacks
\* No delivery was started yet.  failed: the observers whose callback threw;
\* handed: the set each invoked observer was called with; outcome: what the
\* caller of notify gets back once the delivery is over.
NoGuarded ==
  [kind |-> "idle", entity |-> NoEntity, facets |-> {}, start |-> {},
   queue |-> <<>>, invoked |-> <<>>, failed |-> <<>>, handed |-> <<>>,
   outcome |-> "none"]

\* The first failing callback ends the delivery.
AfterObserverFailureAbort(rest) == <<>>

\* Each callback runs inside a failure boundary of its own: after a failure
\* the rest of the snapshot is still invoked.
AfterObserverFailure(rest) == rest

\* What is surfaced when every observer ran: the failure is rethrown.
Surfaced(failed) == IF failed = <<>> THEN "ok" ELSE "err"

InitIsolation ==
  /\ deps \in TypeGraphs
  /\ listeners = [e \in Entities |-> {}]
  /\ batchCounter = [e \in Entities |-> 0]
  /\ pendingNotifications = [e \in Entities |-> {}]
  /\ active = NoTask
  /\ tasks = [t \in Tasks |-> IdleTask]
  /\ emitted = <<>>
  /\ lastOp = NoOp
  /\ reportedIn = [e \in Entities |-> NoReports]
  /\ NothingSerialized
  /\ NoPrefabs
  /\ deliveries = NoGuarded

\* notify(...S) with no batch open: the delivery starts.
StartGuarded(e, S) ==
  /\ deliveries.kind # "delivering"
  /\ deliveries' =
       [NoGuarded EXCEPT
          !.kind = IF Subscribers(listeners, e) = {} THEN "done" ELSE "delivering",
          !.entity = e,
          !.facets = NotifyKeys(deps, S),
          !.start = Subscribers(listeners, e),
          !.queue = Snapshot(Subscribers(listeners, e)),
          !.outcome = IF Subscribers(listeners, e) = {} THEN "ok" ELSE "none"]
  /\ emitted' = <<>>
  /\ lastOp' = Op("notify", e, S)
  /\ UNCHANGED <<serial, prefabs, deps, listeners, batchCounter,
                 pendingNotifications, active, tasks, reportedIn>>

\* The next observer is invoked; its callback returns or throws.
InvokeGuarded(throws) ==
  /\ deliveries.kind = "delivering"
  /\ LET e == deliveries.entity
         o == Head(deliveries.queue)
         failed == IF throws THEN Append(deliveries.failed, o)
                   ELSE deliveries.failed
         rest == IF throws THEN AfterObserverFailure(Tail(deliveries.queue))
                 ELSE Tail(deliveries.queue)
     IN  /\ emitted' = <<Call(e, o, deliveries.facets)>>
         /\ deliveries' = [deliveries EXCEPT
                             !.kind = IF rest = <<>> THEN "done" ELSE "delivering",
                             !.queue = rest,
                             !.invoked = Append(@, o),
                             !.failed = failed,
                             !.handed = Append(@, deliveries.facets),
                             !.outcome = IF rest = <<>> THEN Surfaced(failed)
                                         ELSE "none"]
         /\ lastOp' = Op("step", e, {})
  /\ UNCHANGED <<serial, prefabs, deps, listeners, batchCounter,
                 pendingNotifications, active, tasks, reportedIn>>

NextIsolation ==
  \/ \E e \in Entities, o \in Observers : SubscribeBetween(e, o)
  \/ \E e \in Entities, o \in Observers : UnsubscribeBetween(e, o)
  \/ \E e \in Entities, S \in KeySets : StartGuarded(e, S)
  \/ \E throws \in BOOLEAN : InvokeGuarded(throws)

SpecIsolation == InitIsolation /\ [][NextIsolation]_vars


\* ------------------------------------- overlapping wrapped invocations
\* The invocations of asynchronous @Notifies methods one run records.
MaxCalls == 3

\* peak: the most invocations that were in progress at the same time;
\* settled: the keys of the invocations whose promise resolved, in the order
\* their wrappers continued; rejected: how many rejected; delivered: the set
\* of every notification the subscribers received, in order (history).
NoInvocations ==
  [kind |-> "calls", peak |-> 0, settled |-> <<>>, rejected |-> 0,
   delivered |-> <<>>]

\* The invocations in progress.
InProgress(ts) == {t \in Tasks : ts[t].kind = "wrapped"}

\* The notification made by the step, if any.
Notified(calls) == IF calls = <<>> THEN <<>> ELSE <<calls[1].facets>>

\* Both observers are subscribed for the whole run; no batch is ever open.
InitOverlap ==
  /\ deps = Chain
  /\ listeners = [e \in Entities |-> Observers]
  /\ batchCounter = [e \in Entities |-> 0]
  /\ pendingNotifications = [e \in Entities |-> {}]
  /\ active = NoTask
  /\ tasks = [t \in Tasks |-> IdleTask]
  /\ emitted = <<>>
  /\ lastOp = NoOp
  /\ reportedIn = [e \in Entities |-> NoReports]
  /\ NothingSerialized
  /\ NoPrefabs
  /\ deliveries = NoInvocations

\* The step is recorded.
Invocation(t, ends) ==
  deliveries' =
    [deliveries EXCEPT
       !.peak = IF Cardinality(InProgress(tasks')) > @
                THEN Cardinality(InProgress(tasks')) ELSE @,
       !.settled = IF ends /\ tasks[t].raised = NoError
                   THEN Append(@, tasks[t].keys) ELSE @,
       !.rejected = IF ends /\ tasks[t].raised # NoError THEN @ + 1 ELSE @,
       !.delivered = @ \o Notified(emitted')]

Invocations ==
  Len(deliveries.settled) + deliveries.rejected + Cardinality(InProgress(tasks))

NextOverlap ==
  \/ \E t \in Tasks, e \in Entities, m \in Methods :
        /\ Invocations < MaxCalls
        /\ WrappedCallEffect(t, e, m, TRUE)
        /\ Invocation(t, FALSE)
  \/ \E t \in Tasks : WrappedAwaitEffect(t) /\ Invocation(t, FALSE)
  \/ \E t \in Tasks : ResumeEffect(t) /\ Invocation(t, FALSE)
  \/ \E t \in Tasks, r \in Results :
        WrappedSettleEffect(t, r) /\ Invocation(t, FALSE)
  \/ \E t \in Tasks : WrappedContinueEffect(t) /\ Invocation(t, TRUE)

SpecOverlap == InitOverlap /\ [][NextOverlap]_vars


\* --------------------------------------- subscriptions during a batch
\* What happened to the listener set since the counter last left zero
\* (history).  atOpen: the callbacks registered when the batch was opened;
\* late: those subscribed since and still registered; gone: those
\* unsubscribed since and not registered again; known[o]: the keys that had
\* been notified in the batch when o last subscribed or unsubscribed.
NoChanges ==
  [kind |-> "subs", atOpen |-> {}, late |-> {}, gone |-> {},
   known |-> [o \in Observers |-> {}]]

InitLate ==
  /\ deps = Chain
  /\ listeners = [e \in Entities |-> {}]
  /\ batchCounter = [e \in Entities |-> 0]
  /\ pendingNotifications = [e \in Entities |-> {}]
  /\ active = NoTask
  /\ tasks = [t \in Tasks |-> IdleTask]
  /\ emitted = <<>>
  /\ lastOp = NoOp
  /\ reportedIn = [e \in Entities |-> NoReports]
  /\ NothingSerialized
  /\ NoPrefabs
  /\ deliveries = NoChanges

\* subscribe(callback), recorded when a batch is open on e.
SubscribeLate(e, o) ==
  /\ RegisterEffect(e, o)
  /\ lastOp' = Op("step", e, {})
  /\ deliveries' =
       IF batchCounter[e] > 0
       THEN [deliveries EXCEPT !.late = @ \cup {o}, !.gone = @ \ {o},
                               !.known[o] = Window(e)]
       ELSE deliveries

\* unsubscribe(callback), recorded when a batch is open on e.
UnsubscribeEarly(e, o) ==
  /\ UnregisterEffect(e, o)
  /\ lastOp' = Op("step", e, {})
  /\ deliveries' =
       IF batchCounter[e] > 0
       THEN [deliveries EXCEPT !.late = @ \ {o}, !.gone = @ \cup {o},
                               !.known[o] = Window(e)]
       ELSE deliveries

\* batchNotifications is entered; the record starts anew when the counter
\* leaves zero.
BatchOpenFresh(t, e) ==
  /\ BatchOpenEffect(t, e)
  /\ deliveries' =
       IF batchCounter[e] = 0
       THEN [NoChanges EXCEPT !.atOpen = listeners[e]]
       ELSE deliveries

\* The operation that runs the batches.
Batcher == "t1"

NextLate ==
  \/ \E e \in Entities, o \in Observers : SubscribeLate(e, o)
  \/ \E e \in Entities, o \in Observers : UnsubscribeEarly(e, o)
  \/ \E e \in Entities : BatchOpenFresh(Batcher, e)
  \/ \E S \in KeySets : BatchNotify(Batcher, S)
  \/ Await(Batcher)
  \/ Resume(Batcher)
  \/ BatchClose(Batcher)

SpecLate == InitLate /\ [][NextLate]_vars


\* ------------------------------------------------- batches that settle
\* Both observers are subscribed for the whole run.
InitLive ==
  /\ deps = Chain
  /\ listeners = [e \in Entities |-> Observers]
  /\ batchCounter = [e \in Entities |-> 0]
  /\ pendingNotifications = [e \in Entities |-> {}]
  /\ active = NoTask
  /\ tasks = [t \in Tasks |-> IdleTask]
  /\ emitted = <<>>
  /\ lastOp = NoOp
  /\ reportedIn = [e \in Entities |-> NoReports]
  /\ NothingSerialized
  /\ NoPrefabs
  /\ deliveries = Nothing

\* The fields whose reactive setters work calls.
Fields == {"a", "c"}

\* Operations on an instance whose observers stay subscribed: each runs
\* batchNotifications, nested or not, awaits, notifies, may fail, and
\* another may start while one is suspended.
NextLive ==
  \/ \E t \in Tasks, e \in Entities : BatchOpen(t, e)
  \/ \E t \in Tasks, f \in Fields : BatchNotify(t, {f})
  \/ \E t \in Tasks : Await(t)
  \/ \E t \in Tasks : Resume(t)
  \/ \E t \in Tasks, err \in Errors : BatchThrow(t, err)
  \/ \E t \in Tasks : BatchClose(t)

\* The outermost batch function of operation t settles.
Settles(t) == BatchClose(t) /\ tasks[t].scopes = 1

\* The event loop runs the continuation of every settled await: a suspended
\* operation that can be resumed again and again, whenever no other code is
\* running, is resumed.  Every work given to batchNotifications settles:
\* each batch function that can settle again and again does settle, the
\* outermost one included.
WorkSettles ==
  \A t \in Tasks :
    /\ SF_vars(Resume(t))
    /\ SF_vars(BatchClose(t))
    /\ SF_vars(Settles(t))

SpecLive == InitLive /\ [][NextLive]_vars /\ WorkSettles


\* ------------------------------------------------------------ properties
\* S with every getter that reads, directly or through other getters, a
\* member of S.
Closure(d, S) == {f \in Facets : Reads(d, f, Cardinality(Facets)) \cap S # {}}

\* The last step invoked no observer of e.
NoCallsFor(e) == \A i \in DOMAIN emitted : emitted[i].entity # e

\* The last step invoked every observer subscribed to e exactly once, each
\* with the set S, and nothing else.
ExactlyOnce(e, S) ==
  /\ Len(emitted) = Cardinality(listeners[e])
  /\ \A o \in listeners[e] :
       Cardinality({i \in DOMAIN emitted : emitted[i].observer = o}) = 1
  /\ \A i \in DOMAIN emitted :
       /\ emitted[i].entity = e
       /\ emitted[i].observer \in listeners[e]
       /\ emitted[i].facets = S

\* The last step closed a call of batchNotifications on e.
Closed(e) == lastOp.op = "close" /\ lastOp.entity = e

\* Some operation still has a batch open on e.
BatchOpenOn(e) ==
  \E t \in Tasks : tasks[t].kind = "batch" /\ tasks[t].target = e

\* Batches open on e, counted over the operations in progress.
RECURSIVE ScopesOf(_, _)
ScopesOf(e, ts) ==
  IF ts = {} THEN 0
  ELSE LET t == CHOOSE x \in ts : TRUE
       IN  (IF tasks[t].kind = "batch" /\ tasks[t].target = e
            THEN tasks[t].scopes ELSE 0) + ScopesOf(e, ts \ {t})

\* C1: while a batch is open on an entity no observer is invoked, and the
\* step that brings the counter back to zero invokes every subscribed
\* observer exactly once with the closure of the union of everything
\* notified while the batch was open, whatever the order or repetition.
C1_BatchDeliversUnionOnce ==
  \A e \in Entities :
    /\ batchCounter[e] > 0 => NoCallsFor(e)
    /\ (Closed(e) /\ batchCounter[e] = 0) =>
          ExactlyOnce(e, Closure(deps, lastOp.facets))

\* A batch closed after at least two different keys were notified by one
\* operation, with both observers subscribed and a getter added.
C1_Witness ==
  /\ lastOp.op = "close"
  /\ batchCounter[lastOp.entity] = 0
  /\ listeners[lastOp.entity] = Observers
  /\ \E t \in Tasks : Cardinality(lastOp.parts[t]) >= 2
  /\ Closure(deps, lastOp.facets) # lastOp.facets
  /\ Len(emitted) = 2

\* C2: the pending set of an entity is delivered by a step if and only if
\* that step takes the entity's counter from 1 to 0: such a step invokes the
\* observers with the pending keys and their getters and empties the set,
\* and any other step taken while the counter is above zero invokes no
\* observer and keeps every pending key.
C2_FlushIffCounterOneToZero ==
  [][\A e \in Entities :
       /\ (batchCounter[e] = 1 /\ batchCounter'[e] = 0) =>
             /\ Len(emitted') = Cardinality(listeners[e])
             /\ \A i \in DOMAIN emitted' :
                  /\ emitted'[i].entity = e
                  /\ emitted'[i].facets = Closure(deps, pendingNotifications[e])
             /\ pendingNotifications'[e] = {}
       /\ (batchCounter[e] > 0 /\ ~(batchCounter[e] = 1 /\ batchCounter'[e] = 0)) =>
             /\ \A i \in DOMAIN emitted' : emitted'[i].entity # e
             /\ pendingNotifications[e] \subseteq pendingNotifications'[e]
             /\ batchCounter'[e] > 0
     ]_vars

\* The counter went from 1 to 0 with keys pending and an observer subscribed.
C2_Witness ==
  /\ lastOp.op = "close"
  /\ batchCounter[lastOp.entity] = 0
  /\ lastOp.facets # {}
  /\ Len(emitted) = 1
  /\ \A t \in Tasks : tasks[t].pc = "idle"

\* C3: closing an inner call of batchNotifications delivers nothing and keeps
\* the keys pending; when the operation closes its outermost call and no other
\* operation has a batch open, the keys are delivered exactly once and are no
\* longer pending.
C3_NestedFlushOnlyAtOutermost ==
  \A e \in Entities :
    Closed(e) =>
      /\ lastOp.outcome = "none" =>
            /\ NoCallsFor(e)
            /\ batchCounter[e] > 0
            /\ lastOp.facets \subseteq pendingNotifications[e]
      /\ (lastOp.outcome # "none" /\ ~BatchOpenOn(e)) =>
            /\ batchCounter[e] = 0
            /\ ExactlyOnce(e, Closure(deps, lastOp.facets))
            /\ pendingNotifications[e] = {}

\* An inner call closed, at the deepest nesting, after keys were notified,
\* with an observer subscribed and no other operation in progress.
C3_Witness ==
  /\ lastOp.op = "close"
  /\ lastOp.outcome = "none"
  /\ lastOp.facets # {}
  /\ listeners[lastOp.entity] # {}
  /\ tasks[lastOp.task].scopes = MaxDepth - 1
  /\ \A t \in Tasks \ {lastOp.task} : tasks[t].pc = "idle"

\* C4: while any operation has a batch open on an entity, no step invokes an
\* observer of it, however the operations interleave at their awaits; the
\* close that leaves no batch open invokes every observer exactly once with
\* the closure of the union of what every operation notified.
C4_OverlappingBatchesSingleFlush ==
  \A e \in Entities :
    /\ BatchOpenOn(e) => NoCallsFor(e)
    /\ (Closed(e) /\ ~BatchOpenOn(e)) =>
          ExactlyOnce(e, Closure(deps, UNION {lastOp.parts[t] : t \in Tasks}))

\* The second operation closed its batch while the first, which had notified
\* other keys, is still suspended inside its own: nothing was delivered.
C4_Witness ==
  /\ lastOp.op = "close"
  /\ lastOp.outcome = "ok"
  /\ batchCounter[lastOp.entity] > 0
  /\ listeners[lastOp.entity] # {}
  /\ emitted = <<>>
  /\ \E t \in Tasks \ {lastOp.task} :
       /\ tasks[t].pc = "susp"
       /\ tasks[t].kind = "batch"
       /\ lastOp.parts[t] # {}
       /\ lastOp.parts[lastOp.task] # {}
       /\ lastOp.parts[t] # lastOp.parts[lastOp.task]

\* C5: a close reached because work failed decrements the counter like any
\* other (the counter equals the batches still open), and when it reaches
\* zero the keys notified before the failure are delivered exactly once and
\* the pending set is emptied.
C5_FailedBatchStillFlushes ==
  \A e \in Entities :
    (Closed(e) /\ lastOp.result # NoError) =>
      /\ batchCounter[e] = ScopesOf(e, Tasks)
      /\ batchCounter[e] = 0 =>
            /\ ExactlyOnce(e, Closure(deps, lastOp.facets))
            /\ pendingNotifications[e] = {}

\* A failed work's outermost close flushed keys to a subscribed observer.
C5_Witness ==
  /\ lastOp.op = "close"
  /\ lastOp.result # NoError
  /\ lastOp.outcome = lastOp.result
  /\ batchCounter[lastOp.entity] = 0
  /\ lastOp.parts[lastOp.task] # {}
  /\ Len(emitted) >= 1

\* What the failed unit of work of the last step had notified: the keys a
\* batch operation put in the pending set, or the keys of the wrapped method.
FailedUnitKeys ==
  IF lastOp.op = "close" THEN lastOp.parts[lastOp.task] ELSE lastOp.facets

\* The last step ended, by a failure, a batch scope or a wrapped call on e.
FailedOn(e) ==
  /\ lastOp.op \in {"close", "finish"}
  /\ lastOp.entity = e
  /\ lastOp.result # NoError

\* C6 as stated: when a wrapped or batched unit of work fails, the failure
\* reaches the caller unchanged and no key tied to the failed unit is
\* delivered to any observer.
C6_FailedWorkDeliversNothing ==
  \A e \in Entities :
    FailedOn(e) =>
      /\ lastOp.outcome \in {"none", lastOp.result}
      /\ \A i \in DOMAIN emitted : emitted[i].facets \cap FailedUnitKeys = {}

\* C6 amended: the failure reaches the caller unchanged; a failed wrapped
\* method notifies none of its keys; keys notified inside a batch before its
\* work failed are kept: they stay pending while the counter is above zero
\* and are in the flush when it reaches zero.
C6_FailurePropagatesBatchKeysKept ==
  \A e \in Entities :
    FailedOn(e) =>
      /\ lastOp.outcome \in {"none", lastOp.result}
      /\ lastOp.outcome = "none" <=> tasks[lastOp.task].kind = "batch"
      /\ lastOp.op = "finish" => (lastOp.reports = 0 /\ NoCallsFor(e))
      /\ lastOp.op = "close" =>
            IF batchCounter[e] > 0
            THEN FailedUnitKeys \subseteq pendingNotifications[e] /\ NoCallsFor(e)
            ELSE /\ Len(emitted) = Cardinality(listeners[e])
                 /\ \A i \in DOMAIN emitted : FailedUnitKeys \subseteq emitted[i].facets

\* The caller of a batch got the error back, and the keys notified before
\* the failure were delivered to both observers.
C6_Witness ==
  /\ lastOp.op = "close"
  /\ lastOp.outcome \in Errors
  /\ FailedUnitKeys # {}
  /\ Len(emitted) = 2
  /\ \A i \in DOMAIN emitted : FailedUnitKeys \subseteq emitted[i].facets

C8_FailedWrapperReportsNothing ==
  [][(lastOp'.op = "finish" /\ lastOp'.result # NoError) =>
        /\ lastOp'.outcome = lastOp'.result
        /\ lastOp'.reports = 0
        /\ emitted' = <<>>
        /\ pendingNotifications' = pendingNotifications
     ]_vars

\* A wrapped method failed while a batch with other keys pending was open
\* and an observer was subscribed.
C8_Witness ==
  /\ lastOp.op = "finish"
  /\ lastOp.result # NoError
  /\ batchCounter[lastOp.entity] > 0
  /\ pendingNotifications[lastOp.entity] # {}
  /\ lastOp.facets \cap pendingNotifications[lastOp.entity] = {}
  /\ listeners[lastOp.entity] # {}

\* The last step notified keys on e: a notify call, or a wrapper's report.
Reported(e) ==
  /\ lastOp.entity = e
  /\ lastOp.op = "notify" \/ (lastOp.op = "finish" /\ lastOp.reports > 0)

\* C9: keys notified while the entity's counter is zero are delivered in the
\* same step to every subscribed observer, each receiving the keys with their
\* getters; they are not queued and are not part of a later batch's flush.
C9_UnbatchedReportDeliveredImmediately ==
  \A e \in Entities :
    (Reported(e) /\ batchCounter[e] = 0) =>
      /\ ExactlyOnce(e, Closure(deps, lastOp.facets))
      /\ pendingNotifications[e] = {}
      /\ Window(e) = {}

\* notify with no batch open reached both observers with a getter added.
C9_Witness ==
  /\ lastOp.op = "notify"
  /\ batchCounter[lastOp.entity] = 0
  /\ listeners[lastOp.entity] = Observers
  /\ Len(emitted) = 2
  /\ emitted[1].facets # lastOp.facets
  /\ emitted[2].facets = emitted[1].facets

\* C10: over every acyclic @DependsOn declaration, every set handed to an
\* observer is the notified set with every getter that reads one of its
\* members directly or through other getters, and nothing else.
C10_DeliveredSetIsDependencyClosure ==
  \A i \in DOMAIN emitted : emitted[i].facets = Closure(deps, lastOp.facets)

\* An observer received a getter that reads the notified key only through
\* another getter.
C10_Witness ==
  /\ emitted # <<>>
  /\ \E f \in emitted[1].facets :
       /\ f \notin lastOp.facets
       /\ deps[f] \cap lastOp.facets = {}

\* C11: in the Counter class, one successful call of increment() that ends
\* while no batch is open makes the wrapper notify once, and that one
\* notification invokes every subscribed observer exactly once with
\* {count, isEven}; while the call is in progress nothing was notified.
C11_CounterIncrementDeliversCountAndIsEven ==
  /\ \A t \in Tasks : tasks[t].kind = "wrapped" => tasks[t].reports = 0
  /\ \A e \in Entities :
       (lastOp.op = "finish" /\ lastOp.entity = e /\ lastOp.result = NoError
          /\ batchCounter[e] = 0) =>
         /\ lastOp.facets = {"a"}
         /\ lastOp.reports = 1
         /\ ExactlyOnce(e, {"a", "b"})

\* increment() finished with one observer subscribed, which was called once.
C11_Witness ==
  /\ lastOp.op = "finish"
  /\ lastOp.result = NoError
  /\ lastOp.mutations = 1
  /\ batchCounter[lastOp.entity] = 0
  /\ Len(emitted) = 1
  /\ emitted[1].facets = {"a", "b"}

\* C12 as stated: a @DependsOn declaration that would close a cycle (a getter
\* depending on itself, directly or through other getters) is refused when it
\* is made: the table stays acyclic, and a refused declaration leaves the
\* table as it was.
C12_CyclicDeclarationRejected ==
  [][lastOp'.op = "declare" =>
        /\ Acyclic(deps')
        /\ lastOp'.outcome # "ok" => deps' = deps
     ]_vars

\* C13: over every acyclic @DependsOn declaration, expanding a set that was
\* already expanded adds nothing: every set handed to an observer (the
\* expansion of what was notified, one key or several) is its own expansion.
C13_ExpandIsIdempotent ==
  \A i \in DOMAIN emitted :
    Expand(deps, emitted[i].facets) = emitted[i].facets

\* A single key was notified and the expansion walked a chain of two getters.
C13_Witness ==
  /\ emitted # <<>>
  /\ Cardinality(lastOp.facets) = 1
  /\ emitted[1].facets = Facets
  /\ \E f \in Facets : deps[f] # {} /\ deps[f] \cap lastOp.facets = {}

\* C14: the flush of a batch carries the keys whose notify was executed by
\* work, with the getters reading them, and nothing else: a key whose notify
\* sits in a branch that was not taken, and that reads no executed key, is in
\* no delivered set (x alone executed: only x and its getters are delivered).
C14_SkippedBranchNotDelivered ==
  \A e \in Entities :
    (Closed(e) /\ batchCounter[e] = 0) =>
      \A i \in DOMAIN emitted :
        /\ \A f \in Facets \ Closure(deps, lastOp.facets) : f \notin emitted[i].facets
        /\ \A f \in Closure(deps, lastOp.facets) : f \in emitted[i].facets

\* A batch in which only one key was notified flushed to an observer, and a
\* key that was not notified is missing from the delivered set.
C14_Witness ==
  /\ lastOp.op = "close"
  /\ batchCounter[lastOp.entity] = 0
  /\ Cardinality(lastOp.facets) = 1
  /\ emitted # <<>>
  /\ \E f \in Facets : f \notin emitted[1].facets

\* C15: the keys of a method decorated with @Notifies are those written in
\* the decorator: every successful invocation notifies exactly that list, also
\* when the body assigned nothing; the list reaches the observers (with its
\* getters) when no batch is open, and the pending set otherwise.
C15_NotifiesListIsFixed ==
  (lastOp.op = "finish" /\ lastOp.result = NoError) =>
    /\ \E m \in Methods : lastOp.facets = NotifiesKeys(m)
    /\ IF batchCounter[lastOp.entity] = 0
       THEN ExactlyOnce(lastOp.entity, Closure(deps, lastOp.facets))
       ELSE /\ lastOp.facets \subseteq pendingNotifications[lastOp.entity]
            /\ lastOp.facets \subseteq reportedIn[lastOp.entity][lastOp.task]

\* A method decorated with two keys returned without assigning anything and
\* an observer was called with both keys.
C15_Witness ==
  /\ lastOp.op = "finish"
  /\ lastOp.result = NoError
  /\ lastOp.mutations = 0
  /\ Cardinality(lastOp.facets) = 2
  /\ emitted # <<>>
  /\ lastOp.facets \subseteq emitted[1].facets

\* A method decorated with @BatchNotifications is still running on e.
MethodRunning(e) ==
  \E t \in Tasks : tasks[t].kind = "decorated" /\ tasks[t].target = e

\* C16: a method decorated with @BatchNotifications behaves as its body run
\* inside this.batchNotifications(): while it is running (suspended at an
\* await or not) no observer is invoked and its batch is open; when it
\* returns or its promise settles, everything its body notified, before and
\* after an await, is kept pending if another batch is still open and is
\* otherwise delivered in a single notification, exactly as the close of a
\* batch opened by hand.
C16_DecoratorIsBatchNotifications ==
  \A e \in Entities :
    /\ MethodRunning(e) => (NoCallsFor(e) /\ batchCounter[e] > 0)
    /\ (lastOp.op \in {"return", "close"} /\ lastOp.entity = e) =>
          IF MethodRunning(e) \/ BatchOpenOn(e)
          THEN NoCallsFor(e) /\ lastOp.facets \subseteq pendingNotifications[e]
          ELSE /\ batchCounter[e] = 0
               /\ ExactlyOnce(e, Closure(deps, lastOp.facets))
               /\ pendingNotifications[e] = {}

\* An async decorated method that notified keys on both sides of an await
\* settled, and an observer got one notification with all of them.
C16_Witness ==
  /\ lastOp.op = "return"
  /\ lastOp.isAsync
  /\ lastOp.result = NoError
  /\ Cardinality(lastOp.parts[lastOp.task]) >= 2
  /\ Len(emitted) = 1
  /\ lastOp.facets \subseteq emitted[1].facets
  /\ \A t \in Tasks : tasks[t].pc = "idle"

\* C17: the listener sets of two objects never interfere, whether the objects
\* come from the same composed class or from two compositions of the same
\* base class: a notification on one object invokes exactly the observers
\* subscribed to that object, each for that object, and no observer that is
\* subscribed only to another object.
C17_RegistriesAreIndependent ==
  \A e \in Instances :
    Reported(e) =>
      /\ \A i \in DOMAIN emitted :
           /\ emitted[i].entity = e
           /\ emitted[i].observer \in listeners[e]
      /\ \A x \in Instances \ {e} : \A o \in listeners[x] \ listeners[e] :
           \A i \in DOMAIN emitted : emitted[i].observer # o
      /\ \A o \in listeners[e] : \E i \in DOMAIN emitted : emitted[i].observer = o

\* A notification on an object with one observer, while the other observer
\* is subscribed only to an object of the same class and to an object of the
\* other composition: only the first observer was invoked.
C17_Witness ==
  /\ Reported("e1")
  /\ listeners["e1"] = {"o1"}
  /\ listeners["e2"] = {"o2"}
  /\ listeners["e3"] = {"o2"}
  /\ TypeOf("e2") = TypeOf("e1")
  /\ TypeOf("e3") # TypeOf("e1")
  /\ Len(emitted) = 1
  /\ emitted[1].observer = "o1"

\* C18: batching is per object: keys notified on an object whose own counter
\* is zero are delivered to its observers in the same step and are not
\* queued, also while a batch is open on another object; and the flush of an
\* object carries the keys notified on that object only, to its own observers.
C18_BatchingIsPerEntity ==
  \A e \in Pair :
    /\ (Reported(e) /\ batchCounter[e] = 0) =>
          /\ ExactlyOnce(e, Closure(deps, lastOp.facets))
          /\ pendingNotifications[e] = {}
    /\ (Closed(e) /\ batchCounter[e] = 0) =>
          /\ ExactlyOnce(e, Closure(deps, lastOp.facets))
          /\ \A x \in Pair \ {e} :
               pendingNotifications[x] = UNION {reportedIn[x][t] : t \in Tasks}

\* work running inside a batch of e1, with keys pending there, notified a key
\* on e2 and the observer of e2 was invoked at once.
C18_Witness ==
  /\ lastOp.op = "notify"
  /\ lastOp.entity = "e2"
  /\ active # NoTask
  /\ batchCounter["e1"] > 0
  /\ batchCounter["e2"] = 0
  /\ pendingNotifications["e1"] # {}
  /\ listeners["e2"] # {}
  /\ emitted # <<>>

\* The last step made a delivery on e that invoked o.
Invoked(e, o) ==
  \E i \in DOMAIN emitted : emitted[i].entity = e /\ emitted[i].observer = o

\* How a step treats the callbacks of e: subscribe adds the callback it was
\* given, unsubscribe removes the callback it was given and no other, no other
\* step changes the listener set; a delivery invokes no callback that was not
\* registered when it started and every callback that was.
SubscriptionsRespected(e) ==
  /\ (lastOp'.op = "subscribe" /\ lastOp'.entity = e) =>
        listeners'[e] = listeners[e] \cup {lastOp'.observer}
  /\ (lastOp'.op = "unsubscribe" /\ lastOp'.entity = e) =>
        /\ lastOp'.observer \notin listeners'[e]
        /\ listeners'[e] \cup {lastOp'.observer} = listeners[e]
  /\ lastOp'.op \notin {"subscribe", "unsubscribe"} => listeners'[e] = listeners[e]
  /\ \A o \in Observers \ listeners[e] : ~Invoked(e, o)'
  /\ (\E o \in Observers : Invoked(e, o)') => \A o \in listeners[e] : Invoked(e, o)'

C20_HydrateDehydrateRoundTrip ==
  hydrated # Nothing =>
    /\ hydrated.kind = instance.kind
    /\ instance.kind = "Sprite" =>
          /\ hydrated.x = instance.x
          /\ hydrated.y = instance.y
          /\ position(hydrated) = position(instance)
    /\ instance.kind = "UserProfileManager" =>
          hydrated.profile = instance.profile


\* The plain values of the shape each class declares for its hydrate:
\* numbers x and y for Sprite, a UserProfileSchema object for
\* UserProfileManager.
WellFormed(name) ==
  IF name = "Sprite"
  THEN [kind : {"object"}, x : {Num(n) : n \in Coords}, y : {Num(n) : n \in Coords}]
  ELSE {d \in ProfileData : d.id = "a uuid" /\ d.username = "alice"}

RECURSIVE FirstFailing(_)
FirstFailing(i) ==
  IF i > Len(PropOrder) THEN Nothing
  ELSE IF \/ dehydratedData[PropOrder[i]].name \notin registry
          \/ hydrate(dehydratedData[PropOrder[i]].name,
                     dehydratedData[PropOrder[i]].data).kind = "error"
       THEN dehydratedData[PropOrder[i]]
       ELSE FirstFailing(i + 1)

\* C22: hydrating a payload whose key maps to a serial name that has no
\* entry in the registry fails with a configuration error at that
\* hydration, the entry being neither skipped nor replaced by a default;
\* resolve(name) is not-found for every name that was never registered.
C22_MissingRegistryEntryFailsFast ==
  /\ \A n \in ClassNames \ registry : resolve(registry, n) = NotFound
  /\ (hydrated # Nothing /\ FirstFailing(1) # Nothing
        /\ FirstFailing(1).name \notin registry)
       => hydrated = Failure("no class registered")
  /\ (hydrated # Nothing /\ hydrated.kind = "instances")
       => \A k \in PropNames : dehydratedData[k].name \in registry

\* The first entry was reconstructed, the second names UserProfileManager,
\* which the registry does not hold, and hydrateInstances ended with the
\* error.
C22_Witness ==
  /\ registry = {"Sprite"}
  /\ dehydratedData["playerSprite"] = [name |-> "Sprite", data |-> dehydrate(Sprite(0, 1))]
  /\ dehydratedData["profile"].name = "UserProfileManager"
  /\ hydrated = Failure("no class registered")

\* C23: hydrateInstances reconstructs every entry of the dehydrated mapping
\* before any of them is exposed: whatever the consumer is handed is either
\* an error or a mapping whose entries are all instances, also when one
\* entry fails to hydrate.
C23_BulkHydrationExposesAllOrNothing ==
  /\ hydrated # Nothing =>
       \/ hydrated.kind = "error"
       \/ /\ hydrated.kind = "instances"
          /\ \A k \in PropNames : hydrated.of[k].kind = dehydratedData[k].name
  /\ (hydrating # Nothing /\ \E k \in PropNames : hydrating.done[k] = Nothing)
       => hydrated = Nothing

\* The first entry was reconstructed and the second failed validation: the
\* consumer is handed the error and no mapping.
C23_Witness ==
  /\ registry = ClassNames
  /\ hydrate(dehydratedData["playerSprite"].name,
             dehydratedData["playerSprite"].data).kind = "Sprite"
  /\ dehydratedData["profile"] = [name |-> "UserProfileManager", data |-> Null]
  /\ hydrated = Failure("ZodError")


\* The work of the abandoned task is suspended inside its batch on e.
AbandonedIn(e) ==
  /\ tasks[Abandoned].pc = "susp"
  /\ tasks[Abandoned].kind = "batch"
  /\ tasks[Abandoned].target = e

\* C24: when work passed to batchNotifications is abandoned and never
\* settles, its batch never closes: from then on the counter of the entity
\* stays above zero, no step delivers anything to the entity's observers
\* (no timeout flush), and the keys the work notified stay in the pending
\* set (no rollback).
C24_AbandonedWorkIsNeverFlushed ==
  \A e \in Entities :
    AbandonedIn(e) =>
      /\ batchCounter[e] >= tasks[Abandoned].scopes
      /\ NoCallsFor(e)
      /\ reportedIn[e][Abandoned] \subseteq pendingNotifications[e]

\* t1 notified keys and was abandoned; a batch of t2 on the same entity then
\* closed while an observer was subscribed, and the keys of both are still
\* pending.
C24_Witness ==
  \E e \in Entities :
    /\ AbandonedIn(e)
    /\ reportedIn[e][Abandoned] # {}
    /\ lastOp.op = "close"
    /\ lastOp.task = "t2"
    /\ lastOp.entity = e
    /\ reportedIn[e]["t2"] # {}
    /\ listeners[e] # {}
    /\ tasks["t2"].pc = "idle"


\* C25: HybridCommandBus keeps a one-to-one mapping from command type to
\* local handler. A registration for a type that already has a handler ends
\* with MULTIPLE_HANDLERS_FOR_COMMAND and the handler registered first stays;
\* a registration for a free type stores its handler; a locally dispatched
\* command is executed by exactly the one handler of its type, and ends with
\* NO_HANDLER_FOR_COMMAND, no handler executed, when there is none.
C25_OneHandlerPerCommandType ==
  [][LET call == commandBus'.last
         before == commandBus.handlers
         after == commandBus'.handlers
     IN  /\ \A c \in CommandTypes : before[c] # NoHandler => after[c] = before[c]
         /\ call.op = "register" =>
              IF before[call.type] # NoHandler
              THEN call.code = "MULTIPLE_HANDLERS_FOR_COMMAND" /\ after = before
              ELSE call.code = "ok" /\ after = [before EXCEPT ![call.type] = call.handler]
         /\ (call.op = "dispatch" /\ ~call.isRemote) =>
              /\ after = before
              /\ IF before[call.type] = NoHandler
                 THEN call.code = "NO_HANDLER_FOR_COMMAND" /\ call.executed = <<>>
                 ELSE /\ call.executed = <<before[call.type]>>
                      /\ call.code \in {"ok", "LOCAL_HANDLER_EXECUTION_FAILED"}
    ]_vars

\* h2 was offered for a type that h1 already handles: the call was rejected
\* and h1 is still the handler.
C25_Witness ==
  /\ commandBus # Nothing
  /\ commandBus.last.op = "register"
  /\ commandBus.last.handler = "h2"
  /\ commandBus.last.code = "MULTIPLE_HANDLERS_FOR_COMMAND"
  /\ commandBus.handlers[commandBus.last.type] = "h1"


\* C26: event bus publish isolates failures. Whatever handlers fail and
\* whether or not the remote publish fails, every handler registered for the
\* event type is executed, once, a remote event is sent to the remote
\* publisher, and exactly the failures that happened are handed to the
\* monitoring port.
C26_PublishIsolatesFailures ==
  (eventBus # Nothing /\ eventBus.last.op = "publish") =>
    LET call == eventBus.last
        registered == eventBus.handlers[call.type]
    IN  /\ call.executed = registered
        /\ call.sent = call.isRemote
        /\ call.monitored =
             (call.failing \cap Range(registered))
               \cup (IF call.isRemote /\ call.remoteFails THEN {RemotePath} ELSE {})

\* h1 and the remote publish both failed: h2, registered after h1, was
\* executed, the event was sent, and both failures were monitored.
C26_Witness ==
  /\ eventBus # Nothing
  /\ eventBus.last.op = "publish"
  /\ eventBus.last.isRemote
  /\ eventBus.last.remoteFails
  /\ eventBus.last.failing = {"h1"}
  /\ eventBus.handlers[eventBus.last.type] = <<"h1", "h2">>
  /\ eventBus.last.executed = <<"h1", "h2">>
  /\ eventBus.last.monitored = {"h1", RemotePath}


\* C27: when historyPointer is not at the last history entry, saveState
\* discards every entry after the pointer before pushing the new memento:
\* after a saveState the history is the entries up to the old pointer
\* followed by the new memento, the pointer is at the last entry and
\* canRedo is false.
C27_SaveStateCutsRedoHistory ==
  [][caretaker'.last.op = "saveState" =>
       /\ caretaker'.history =
            SubSeq(caretaker.history, 1, caretaker.historyPointer + 1)
              \o <<caretaker.originator>>
       /\ caretaker'.historyPointer = Len(caretaker'.history) - 1
       /\ ~canRedo(caretaker')
    ]_vars

\* saveState was called with the pointer at the first of three entries:
\* two entries were cut off.
C27_Witness ==
  /\ caretaker # Nothing
  /\ caretaker.last.op = "saveState"
  /\ caretaker.last.from = 0
  /\ caretaker.last.length = 3
  /\ caretaker.historyPointer = 1
  /\ Len(caretaker.history) = 2

C29_DeliveryUsesSnapshot ==
  deliveries.kind \in {"delivering", "done"} =>
    /\ Range(deliveries.invoked) \subseteq deliveries.start
    /\ Cardinality(Range(deliveries.invoked)) = Len(deliveries.invoked)
    /\ deliveries.kind = "done" => Range(deliveries.invoked) = deliveries.start

\* Only o1 was subscribed when the delivery started; its callback subscribed
\* o2, and the delivery ended having invoked o1 alone.
C29_Witness ==
  /\ deliveries # Nothing
  /\ deliveries.kind = "done"
  /\ deliveries.start = {"o1"}
  /\ deliveries.calls = <<[op |-> "subscribe", observer |-> "o2"]>>
  /\ deliveries.invoked = <<"o1">>


\* The sets delivered for the units that closed, in the order of closing.
DeliveredInOrder ==
  [i \in DOMAIN deliveries.closed |-> Closure(deps, deliveries.closed[i])]

\* C30: for a single entity, deliveries occur in the order in which their
\* governing batch or unbatched notify closed, each one reaching every
\* observer before the next begins: every observer has seen the same
\* sequence of sets, one per closed unit and in the order of closing, and
\* overlapping batches add no partial delivery to it.
C30_DeliveriesInClosingOrder ==
  deliveries.kind = "log" =>
    \A o \in Observers : deliveries.seen[o] = DeliveredInOrder

\* Two batches overlapped and were flushed together after an unbatched
\* delivery of other keys: both observers saw the two sets in that order.
C30_Witness ==
  /\ deliveries # Nothing
  /\ deliveries.kind = "log"
  /\ Len(deliveries.closed) = 2
  /\ deliveries.closed[1] # deliveries.closed[2]
  /\ lastOp.op = "close"
  /\ \A t \in Tasks : lastOp.parts[t] # {}
  /\ lastOp.parts["t1"] # lastOp.parts["t2"]
  /\ Len(deliveries.seen["o2"]) = 2



\* C31: every list of keys handed to the subscribers is duplicate-free, and it
\* holds exactly the keys of the delivered set: a key notified several times
\* within a batch, or notified itself and also reached through @DependsOn, or
\* reached through several dependency paths, appears exactly once.
C31_DeliveredKeysAreUnique ==
  /\ Len(deliveries.last) = Cardinality(Range(deliveries.last))
  /\ \A i \in DOMAIN emitted : emitted[i].facets = Range(deliveries.last)

\* A flush of a batch in which a was notified twice, and c was notified
\* itself while it also depends on the notified a and b.
C31_Witness ==
  /\ lastOp.op = "close"
  /\ emitted /= <<>>
  /\ deps = FanIn
  /\ Len(deliveries.from) > Cardinality(Range(deliveries.from))
  /\ Range(deliveries.from) = {"a", "b", "c"}
  /\ Len(deliveries.last) = 3



\* C32: over every dependency table the declarations have produced, the
\* propagation of a notification to the dependent getters comes to an end:
\* no notify stays inside the expansion forever.
C32_ExpandTerminates ==
  \A t \in Tasks : tasks[t].pc # "loop"



C35_CounterCountsOpenBatches ==
  /\ [](\A e \in Entities :
          /\ batchCounter[e] = ScopesOf(e, Tasks)
          /\ batchCounter[e] >= 0)
  /\ [][\A e \in Entities :
          IF lastOp'.op = "close" /\ lastOp'.entity = e
          THEN batchCounter'[e] = batchCounter[e] - 1
          ELSE batchCounter'[e] >= batchCounter[e]
       ]_vars

\* The nested batch of an operation settled with a failure while another
\* operation had a batch open on the same instance: two calls remain open.
C35_Witness ==
  /\ lastOp.op = "close"
  /\ lastOp.result # NoError
  /\ lastOp.outcome = "none"
  /\ batchCounter[lastOp.entity] = 2
  /\ \A t \in Tasks : tasks[t].kind = "batch" /\ tasks[t].scopes = 1



\* C36: whenever the reference counter of an instance is zero its pending
\* notifications set is empty.  The set holds exactly the keys notified
\* since the counter was last zero: the flush hands over those keys (with
\* their getters) and clears the set in the same step, so a key of an
\* earlier batch is not in a later flush unless it was notified again.
C36_PendingEmptyAtCounterZero ==
  \A e \in Entities :
    /\ batchCounter[e] = 0 => pendingNotifications[e] = {}
    /\ pendingNotifications[e] = Window(e)
    /\ (Closed(e) /\ batchCounter[e] = 0) =>
          \A i \in DOMAIN emitted :
            emitted[i].facets = Closure(deps, lastOp.facets)

\* A flush that delivered c alone to both observers has just cleared the
\* set: the counter is zero and nothing is pending.
C36_Witness ==
  /\ lastOp.op = "close"
  /\ lastOp.facets = {"c"}
  /\ batchCounter[lastOp.entity] = 0
  /\ pendingNotifications[lastOp.entity] = {}
  /\ Len(emitted) = 2
  /\ emitted[1].facets = {"c"}



\* C37: the flush of a batch invokes the callbacks registered when the
\* flush starts, not those registered when the keys were notified.  A
\* callback subscribed while the batch was open is invoked with all the
\* keys of the batch, those notified before it subscribed included; a
\* callback unsubscribed before the outermost close is not invoked.
C37_FlushGoesToCurrentSubscribers ==
  \A e \in Entities :
    (Closed(e) /\ batchCounter[e] = 0) =>
      /\ \A o \in Observers : Invoked(e, o) <=> o \in listeners[e]
      /\ \A o \in deliveries.late :
            \E i \in DOMAIN emitted :
              /\ emitted[i].observer = o
              /\ deliveries.known[o] \subseteq emitted[i].facets
              /\ emitted[i].facets = Closure(deps, lastOp.facets)
      /\ \A o \in deliveries.gone : ~Invoked(e, o)

\* o1 was subscribed when the batch was opened and unsubscribed after a was
\* notified; o2 subscribed after a was notified: the flush invoked o2 alone,
\* with a and its getters.
C37_Witness ==
  /\ lastOp.op = "close"
  /\ batchCounter[lastOp.entity] = 0
  /\ deliveries.atOpen = {"o1"}
  /\ deliveries.gone = {"o1"}
  /\ deliveries.late = {"o2"}
  /\ deliveries.known["o1"] = {"a"}
  /\ deliveries.known["o2"] = {"a"}
  /\ emitted = <<Call(lastOp.entity, "o2", {"a", "b", "c"})>>



\* Key f notified on e has reached every subscriber of e in a flush.
DeliveredAtFlush(e, f) ==
  /\ Closed(e)
  /\ batchCounter[e] = 0
  /\ \A o \in listeners[e] :
       \E i \in DOMAIN emitted :
         /\ emitted[i].entity = e
         /\ emitted[i].observer = o
         /\ f \in emitted[i].facets

\* C38 as stated: when every work given to batchNotifications settles, a
\* counter above zero eventually returns to zero, and every key notified in
\* a batch is eventually delivered to the callbacks subscribed at the flush.
C38_SettledBatchesAreFlushed ==
  \A e \in Entities :
    /\ (batchCounter[e] > 0) ~> (batchCounter[e] = 0)
    /\ \A f \in Facets :
         (f \in pendingNotifications[e]) ~> DeliveredAtFlush(e, f)

\* C38 amended: when every work given to batchNotifications settles and,
\* from some point on, batchNotifications is not called again on the
\* instance, a counter above zero eventually returns to zero, and every key
\* notified in a batch is eventually delivered to the callbacks subscribed
\* at the flush.  (Batches that keep overlapping for ever keep the counter
\* above zero although each of them settles.)
C38_FlushedOnceBatchesStop ==
  \/ []<>(lastOp.op = "open")
  \/ \A e \in Entities :
       /\ (batchCounter[e] > 0) ~> (batchCounter[e] = 0)
       /\ \A f \in Facets :
            (f \in pendingNotifications[e]) ~> DeliveredAtFlush(e, f)

\* Two overlapping batches, each of which notified keys, have both settled
\* without failure: the counter is back at zero and both observers got the
\* keys.
C38_Witness ==
  /\ lastOp.op = "close"
  /\ lastOp.result = NoError
  /\ batchCounter[lastOp.entity] = 0
  /\ \A t \in Tasks : lastOp.parts[t] # {} /\ tasks[t].pc = "idle"
  /\ \A f \in lastOp.facets : DeliveredAtFlush(lastOp.entity, f)



=============================================================================
